---------------------------- MODULE Spec2Model ----------------------------
(***************************************************************************)
(* Model of the clinical-fact extraction core of AIPatientAssistant        *)
(* (src/azure_health_pdf_extractor.py):                                    *)
(*   - chunk_text                 (specification SpecChunk)                *)
(*   - extract_rule_based         (specification SpecRule)                 *)
(*   - extract_health_from_text / analyze_with_azure (specification Spec)  *)
(* Strings that the code inspects character by character are sequences of  *)
(* one-character strings; Python indexes are 0-based, TLA+ sequences       *)
(* 1-based, so text[i] of the code is text[i + 1] here.                    *)
(***************************************************************************)
EXTENDS Integers, Sequences, FiniteSets, TLC

VARIABLES
    \* ---- chunk_text(text, max_chars)
    text,        \* the argument text
    max_chars,   \* the argument max_chars
    start,       \* local start
    chunks,      \* local chunks (the returned list once ck_pc = "done")
    ck_pc,       \* position in chunk_text: "idle", "entry", "loop", "done"
    \* ---- extract_rule_based(text)
    rb_text,       \* the argument text
    rb_i,          \* number of the next match of med_line_re.finditer (from 1)
    rb_meds,       \* local meds: name -> Medication
    rb_diagnoses,  \* local diagnoses: lower-cased text -> Diagnosis
    rb_symptoms,   \* local symptoms
    rb_labs,       \* local labs
    rb_result,     \* the returned envelope, Null before the return
    rb_pc,         \* position: "idle", "meds", "scan", "return", "done"
    \* ---- extract_health_from_text(text)
    co_text,       \* the argument text, as far as the rule-based patterns see it
    co_pc,         \* position: "idle", "start", "try", "fallback", "done"
    co_result,     \* the returned envelope, Null before the return
    az_calls,      \* number of calls of analyze_with_azure
    rb_calls,      \* number of calls of extract_rule_based
    \* ---- the surroundings of analyze_with_azure
    client,        \* what get_azure_client() returns: Null when not configured
    chunked,       \* what chunk_text(text) returns: per chunk, whether it is blank
    service,       \* what the remote service will answer (pages, failing call)
    \* ---- analyze_with_azure(text)
    az_pc,         \* position: "idle", "entry", "batch", "doc", "raised", "returned"
    documents,     \* local documents
    az_diagnoses,  \* local diagnoses: entity key -> Diagnosis
    az_symptoms,   \* local symptoms: entity key -> Symptom
    az_meds,       \* local meds: entity key -> Medication
    az_labs,       \* local labs: entity key -> Lab
    az_i,          \* loop variable i: 0-based index of the first document of the batch
    remote_calls,  \* number of calls of client.begin_analyze_healthcare_entities
    served,        \* number of pages the service has handed out
    payload,       \* local payload of the current batch
    result_pages,  \* local result_pages of the current batch
    az_j,          \* number of the current doc_result in result_pages (from 1)
    az_e,          \* number of the next entity of the current doc_result (from 1)
    az_r,          \* number of the next relation of the current doc_result (from 1)
    az_exc,        \* the exception analyze_with_azure raised, Null if none
    az_result      \* the envelope analyze_with_azure returned, Null before

chunkVars == <<text, max_chars, start, chunks, ck_pc>>

ruleVars ==
    <<rb_text, rb_i, rb_meds, rb_diagnoses, rb_symptoms, rb_labs, rb_result, rb_pc>>

coVars == <<co_text, co_pc, co_result, az_calls, rb_calls>>

envVars == <<client, chunked, service>>

azVars ==
    <<az_pc, documents, az_diagnoses, az_symptoms, az_meds, az_labs, az_i,
      remote_calls, served, payload, result_pages, az_j, az_e, az_r, az_exc,
      az_result>>

vars == <<chunkVars, ruleVars, coVars, envVars, azVars>>

\* extract_rule_based is not running.
RuleIdle ==
    /\ rb_text = <<>>
    /\ rb_i = 1
    /\ rb_meds = <<>>
    /\ rb_diagnoses = <<>>
    /\ rb_symptoms = <<>>
    /\ rb_labs = <<>>
    /\ rb_result = <<"None">>
    /\ rb_pc = "idle"

\* analyze_with_azure is not running.
AzIdle ==
    /\ az_pc = "idle"
    /\ documents = <<>>
    /\ az_diagnoses = <<>>
    /\ az_symptoms = <<>>
    /\ az_meds = <<>>
    /\ az_labs = <<>>
    /\ az_i = 0
    /\ remote_calls = 0
    /\ served = 0
    /\ payload = <<>>
    /\ result_pages = <<>>
    /\ az_j = 1
    /\ az_e = 1
    /\ az_r = 1
    /\ az_exc = <<"None">>
    /\ az_result = <<"None">>

\* extract_health_from_text is not running and no client is configured.
CoIdle ==
    /\ co_text = <<>>
    /\ co_pc = "idle"
    /\ co_result = <<"None">>
    /\ az_calls = 0
    /\ rb_calls = 0
    /\ client = <<"None">>
    /\ chunked = <<>>
    /\ service = <<>>
    /\ AzIdle

\* A Python string is a sequence of symbols (characters where the code looks
\* at characters, whole tokens elsewhere); None is this reserved value, which
\* no string equals.
Null == <<"None">>

\* What At yields past the end of a string: a symbol of no character class.
EOT == "EOT"

NL == "\n"

Min(a, b) == IF a <= b THEN a ELSE b

\* Let(e, LAMBDA x : F(x)) is F(e), with e evaluated once.
Let(e, F(_)) == CHOOSE r \in {F(x) : x \in {e}} : TRUE

Max(S) == Let(S, LAMBDA T : CHOOSE x \in T : \A y \in T : y <= x)

SetMin(S) == Let(S, LAMBDA T : CHOOSE x \in T : \A y \in T : x <= y)

RECURSIVE Flatten(_)
\* "".join(chunks)
Flatten(ss) == IF ss = <<>> THEN <<>> ELSE Head(ss) \o Flatten(Tail(ss))

(***************************************************************************)
(* chunk_text                                                              *)
(***************************************************************************)

\* The margin of line 144: a newline at most this far after start is not
\* used as a split point.
NEWLINE_MARGIN == 1000

\* Bounds of the chunking inputs: a text is at most MaxSegs segments, each a
\* run of filler characters optionally ended by a newline, and an input is
\* kept only if the bound alone would cut it in at most MaxPieces pieces.
MaxSegs == 2
MaxPieces == 3

\* str.rfind(ch, start, end): the highest index i in [start, end) with
\* t[i] = ch, or -1.
RFind(t, ch, from, to) ==
    LET hits == {i \in from .. (Min(to, Len(t)) - 1) : t[i + 1] = ch}
    IN  IF hits = {} THEN -1 ELSE Max(hits)

\* Lines 141-145 with the bound off by one: end = start + max_chars + 1.
SplitPointLong(t, st, mc) ==
    LET end == Min(st + mc + 1, Len(t))
        nl  == RFind(t, NL, st, end)
    IN  IF nl = -1 \/ nl <= st + NEWLINE_MARGIN THEN end ELSE nl

\* Lines 141-145 without the margin: any newline found is the split point.
SplitPointNoMargin(t, st, mc) ==
    LET end == Min(st + mc, Len(t))
        nl  == RFind(t, NL, st, end)
    IN  IF nl = -1 THEN end ELSE nl

\* Lines 141-145: the index at which the chunk starting at st ends.
SplitPoint(t, st, mc) ==
    LET end == Min(st + mc, Len(t))
        nl  == RFind(t, NL, st, end)
    IN  IF nl = -1 \/ nl <= st + NEWLINE_MARGIN THEN end ELSE nl

\* Line 146: text[start:nl].
Slice(t, from, to) == SubSeq(t, from + 1, to)

\* Line 147 with the newline of the split skipped: start = nl + 1.
NextStartSkip(t, nl) == IF nl < Len(t) /\ t[nl + 1] = NL THEN nl + 1 ELSE nl

\* Line 147: start = nl.
NextStart(t, nl) == nl

Filler(n) == [i \in 1 .. n |-> "a"]

SegLens == {0, 1, NEWLINE_MARGIN, NEWLINE_MARGIN + 1}

Segments == {Filler(n) : n \in SegLens} \cup {Filler(n) \o <<NL>> : n \in SegLens}

RECURSIVE SegTexts(_)
SegTexts(n) ==
    IF n = 0 THEN {<<>>}
    ELSE LET shorter == SegTexts(n - 1)
         IN  shorter \cup {t \o s : t \in shorter, s \in Segments}

MaxCharsValues == {1, 2, NEWLINE_MARGIN + 1, NEWLINE_MARGIN + 2, NEWLINE_MARGIN + 3}

ChunkInputs ==
    {<<t, mc>> \in SegTexts(MaxSegs) \X MaxCharsValues : Len(t) <= mc * MaxPieces}

InitChunk ==
    /\ \E in \in ChunkInputs :
          /\ text = in[1]
          /\ max_chars = in[2]
    /\ start = 0
    /\ chunks = <<>>
    /\ ck_pc = "entry"
    /\ RuleIdle
    /\ CoIdle

\* Lines 136-139.
ChunkEntry ==
    /\ ck_pc = "entry"
    /\ IF Len(text) <= max_chars
       THEN /\ chunks' = <<text>>
            /\ ck_pc' = "done"
       ELSE /\ chunks' = <<>>
            /\ ck_pc' = "loop"
    /\ start' = 0
    /\ UNCHANGED <<text, max_chars, ruleVars, coVars, envVars, azVars>>

\* Lines 140-147: one iteration of the while loop.
ChunkIter ==
    /\ ck_pc = "loop"
    /\ start < Len(text)
    /\ LET nl == SplitPoint(text, start, max_chars)
       IN  /\ chunks' = Append(chunks, Slice(text, start, nl))
           /\ start' = NextStart(text, nl)
    /\ UNCHANGED <<text, max_chars, ck_pc, ruleVars, coVars, envVars, azVars>>

\* Lines 140, 148: the loop condition fails and chunks is returned.
ChunkReturn ==
    /\ ck_pc = "loop"
    /\ ~(start < Len(text))
    /\ ck_pc' = "done"
    /\ UNCHANGED <<text, max_chars, start, chunks, ruleVars, coVars, envVars, azVars>>

NextChunk == ChunkEntry \/ ChunkIter \/ ChunkReturn

(***************************************************************************)
(* Characters and the string helpers of the rule-based extractor           *)
(***************************************************************************)

LowerAlpha ==
    <<"a", "b", "c", "d", "e", "f", "g", "h", "i", "j", "k", "l", "m",
      "n", "o", "p", "q", "r", "s", "t", "u", "v", "w", "x", "y", "z">>

UpperAlpha ==
    <<"A", "B", "C", "D", "E", "F", "G", "H", "I", "J", "K", "L", "M",
      "N", "O", "P", "Q", "R", "S", "T", "U", "V", "W", "X", "Y", "Z">>

Range(f) == {f[i] : i \in DOMAIN f}

Letters == Range(LowerAlpha) \cup Range(UpperAlpha)

Digits == {"0", "1", "2", "3", "4", "5", "6", "7", "8", "9"}

\* \s of the re module and the characters str.strip() removes.
Whitespace == {" ", "\t", "\n", "\r", "\f"}

\* \w of the re module.
WordChars == Letters \cup Digits \cup {"_"}

\* The lower-case letter of each upper-case letter.
LowerOf ==
    "A" :> "a" @@ "B" :> "b" @@ "C" :> "c" @@ "D" :> "d" @@ "E" :> "e" @@
    "F" :> "f" @@ "G" :> "g" @@ "H" :> "h" @@ "I" :> "i" @@ "J" :> "j" @@
    "K" :> "k" @@ "L" :> "l" @@ "M" :> "m" @@ "N" :> "n" @@ "O" :> "o" @@
    "P" :> "p" @@ "Q" :> "q" @@ "R" :> "r" @@ "S" :> "s" @@ "T" :> "t" @@
    "U" :> "u" @@ "V" :> "v" @@ "W" :> "w" @@ "X" :> "x" @@ "Y" :> "y" @@
    "Z" :> "z"

\* str.lower() on one character.
ToLower(c) == IF c \in DOMAIN LowerOf THEN LowerOf[c] ELSE c

\* str.lower().
Lower(s) == SubSeq([i \in DOMAIN s |-> ToLower(s[i])], 1, Len(s))

\* The character at 0-based index p of t, or EOT past the end.
At(t, p) == IF p >= 0 /\ p < Len(t) THEN t[p + 1] ELSE EOT

\* The end of the longest run of characters of class cls that starts at p.
RunEnd(t, p, cls) == SetMin({q \in p .. Len(t) : At(t, q) \notin cls})

\* The first index q >= p whose character is in stops, or the end of t.
StopAt(t, p, stops) == SetMin({q \in p .. Len(t) : At(t, q) \in stops \cup {EOT}})

\* A literal of a pattern compiled with re.IGNORECASE matches at p.
MatchLitI(t, p, lit) ==
    /\ p + Len(lit) <= Len(t)
    /\ \A i \in 1 .. Len(lit) : ToLower(t[p + i]) = ToLower(lit[i])

\* A literal of a pattern compiled without flags matches at p.
MatchLit(t, p, lit) ==
    /\ p + Len(lit) <= Len(t)
    /\ \A i \in 1 .. Len(lit) : t[p + i] = lit[i]

\* An alternation lit1|lit2|... under re.IGNORECASE at p: the end of the
\* first alternative that matches, or -1.
AltEndI(t, p, lits) ==
    Let({k \in DOMAIN lits : MatchLitI(t, p, lits[k])},
        LAMBDA hits : IF hits = {} THEN -1 ELSE p + Len(lits[SetMin(hits)]))

\* str.strip(chars).
StripChars(s, cs) ==
    Let({i \in DOMAIN s : s[i] \notin cs},
        LAMBDA keep : IF keep = {} THEN <<>> ELSE SubSeq(s, SetMin(keep), Max(keep)))

\* str.strip().
Strip(s) == StripChars(s, Whitespace)

\* piece.strip().strip(".- ")
StripPunct(s) == Let(Strip(s), LAMBDA w : StripChars(w, {".", "-", " "}))

(***************************************************************************)
(* Ordered dictionaries: a sequence of [k, v] entries in insertion order   *)
(***************************************************************************)

DictHas(d, key) == \E i \in DOMAIN d : d[i].k = key

DictIndex(d, key) == CHOOSE i \in DOMAIN d : d[i].k = key

\* d[key]
DictGet(d, key) == d[DictIndex(d, key)].v

\* d[key] = val as it would be without the lookup of key: always a new entry.
DictPutAppend(d, key, val) == Append(d, [k |-> key, v |-> val])

\* d[key] = val as a removal of key followed by an insertion: the entry moves
\* to the end.
DictPutMove(d, key, val) ==
    Append(SelectSeq(d, LAMBDA e : e.k # key), [k |-> key, v |-> val])

\* d[key] = val: replaces the value in place, or appends a new entry.
DictPut(d, key, val) ==
    IF DictHas(d, key)
    THEN [d EXCEPT ![DictIndex(d, key)].v = val]
    ELSE Append(d, [k |-> key, v |-> val])

\* d.setdefault(key, val) as far as d is concerned.
DictSetDefault(d, key, val) ==
    IF DictHas(d, key) THEN d ELSE Append(d, [k |-> key, v |-> val])

\* list(d.values())
DictValues(d) == [i \in DOMAIN d |-> d[i].v]

DictKeys(d) == {d[i].k : i \in DOMAIN d}

(***************************************************************************)
(* The record types (dataclasses of lines 77-112)                          *)
(***************************************************************************)

Medication(name, normalized, confidence, assertion, source) ==
    [name |-> name, normalized |-> normalized, dosage |-> Null,
     frequency |-> Null, route |-> Null, form |-> Null,
     confidence |-> confidence, assertion |-> assertion, source |-> source]

Diagnosis(txt, normalized, confidence, assertion, source) ==
    [text |-> txt, normalized |-> normalized, confidence |-> confidence,
     assertion |-> assertion, source |-> source]

Symptom(txt, normalized, confidence, assertion, source) ==
    [text |-> txt, normalized |-> normalized, confidence |-> confidence,
     assertion |-> assertion, source |-> source]

Lab(name, value, unit, confidence, source) ==
    [name |-> name, value |-> value, unit |-> unit, operator |-> Null,
     confidence |-> confidence, source |-> source]

(***************************************************************************)
(* extract_rule_based: the medication line pattern (lines 306-308, 330-333)*)
(***************************************************************************)

\* The units of MED_DOSE, in the order of the alternation (line 306).
DOSE_UNITS ==
    << <<"m", "g">>,
       <<"m", "c", "g">>,
       <<"g">>,
       <<"i", "u">>,
       <<"u", "n", "i", "t", "s">>,
       <<"m", "l">> >>

\* The literal alternatives of MED_FREQ, in order (line 307); the two
\* q<digits>h alternatives follow them.
FREQ_WORDS ==
    << <<"o", "n", "c", "e", " ", "d", "a", "i", "l", "y">>,
       <<"t", "w", "i", "c", "e", " ", "d", "a", "i", "l", "y">>,
       <<"d", "a", "i", "l", "y">>,
       <<"b", "i", "d">>,
       <<"t", "i", "d">>,
       <<"q", "i", "d">> >>

\* The alternatives of MED_ROUTE, in order (line 308).
ROUTES ==
    << <<"p", "o">>,
       <<"i", "v">>,
       <<"i", "m">>,
       <<"s", "c">>,
       <<"s", "l">>,
       <<"t", "o", "p", "i", "c", "a", "l">>,
       <<"i", "n", "h", "a", "l", "e", "d">>,
       <<"p", "r">> >>

\* [A-Za-z0-9\- ] of the name group.
NameClass == Letters \cup Digits \cup {"-", " "}

\* \d+(?:\.\d+)? at p: the end of the match, or -1.  The fraction is taken
\* when a digit follows the point (greedy).
NumberEnd(t, p) ==
    IF At(t, p) \notin Digits THEN -1
    ELSE Let(RunEnd(t, p, Digits),
             LAMBDA d : IF At(t, d) = "." /\ At(t, d + 1) \in Digits
                        THEN RunEnd(t, d + 1, Digits)
                        ELSE d)

\* \s*(?:unit|...) of MED_DOSE at p: the end of the unit, or -1.
DoseUnitEnd(t, p) ==
    Let(RunEnd(t, p, Whitespace), LAMBDA u : AltEndI(t, u, DOSE_UNITS))

\* MED_DOSE at p: the end of the match, or -1.  When the unit does not
\* follow the fraction the pattern retries without the fraction.
DoseEnd(t, p) ==
    IF At(t, p) \notin Digits THEN -1
    ELSE Let(DoseUnitEnd(t, NumberEnd(t, p)),
             LAMBDA u1 : IF u1 # -1 THEN u1
                         ELSE DoseUnitEnd(t, RunEnd(t, p, Digits)))

\* MED_ROUTE at p: the end of the match, or -1.
RouteEnd(t, p) == AltEndI(t, p, ROUTES)

\* MED_FREQ at p: the end of the match, or -1.
FreqEnd(t, p) ==
    Let(AltEndI(t, p, FREQ_WORDS),
        LAMBDA w :
            IF w # -1 THEN w
            ELSE IF ToLower(At(t, p)) = "q" /\ At(t, p + 1) \in Digits
                 THEN Let(RunEnd(t, p + 1, Digits),
                          LAMBDA h : IF ToLower(At(t, h)) = "h" THEN h + 1 ELSE -1)
                 ELSE -1)

\* An optional group that did not take part in the match, ending at p.
Skipped(p) == <<-1, p>>

\* (?:\s+(?P<route>...))? at p: <<start of the group, end of the match>>.
OptRoute(t, p) ==
    Let(RunEnd(t, p, Whitespace),
        LAMBDA s : Let(RouteEnd(t, s),
                       LAMBDA e : IF s > p /\ e # -1 THEN <<s, e>> ELSE Skipped(p)))

\* (?:\s+(?P<freq>...))? at p: <<start of the group, end of the match>>.
OptFreq(t, p) ==
    Let(RunEnd(t, p, Whitespace),
        LAMBDA s : Let(FreqEnd(t, s),
                       LAMBDA e : IF s > p /\ e # -1 THEN <<s, e>> ELSE Skipped(p)))

\* (?:(?P<dose>...))? at p: <<start of the group, end of the match>>.
OptDose(t, p) ==
    Let(DoseEnd(t, p), LAMBDA e : IF e # -1 THEN <<p, e>> ELSE Skipped(p))

\* The name group [A-Z][A-Za-z0-9\- ]{2,} followed by \s+, under
\* re.IGNORECASE, at p: the end of the name, or -1.  The group is greedy, so
\* it is the longest name that a whitespace character follows; everything
\* after \s+ is optional, so the pattern never gives characters back.
NameEnd(t, p) ==
    IF At(t, p) \notin Letters THEN -1
    ELSE Let(RunEnd(t, p + 1, NameClass),
             LAMBDA run :
                 Let({n \in (p + 3) .. run : At(t, n) \in Whitespace},
                     LAMBDA cands : IF cands = {} THEN -1 ELSE Max(cands)))

\* ^ under re.MULTILINE.
LineStart(t, p) == p = 0 \/ At(t, p - 1) = "\n"

NoMatch == [ok |-> FALSE]

\* m.group(g) for a group that spans span, None when it took no part.
Group(t, span) == IF span[1] = -1 THEN Null ELSE Slice(t, span[1], span[2])

\* The groups of a match of med_line_re that starts at p, with the name
\* ending at n, the dose spanning d, the route r and the frequency f.
MedGroups(t, p, n, d, r, f) ==
    [ok |-> TRUE, name |-> Slice(t, p, n), dose |-> Group(t, d),
     route |-> Group(t, r), freq |-> Group(t, f), end |-> f[2]]

\* med_line_re.match at p (lines 330-333): the groups and the end of the
\* match, or NoMatch.
MedMatchAt(t, p) ==
    IF ~LineStart(t, p) THEN NoMatch
    ELSE Let(NameEnd(t, p),
         LAMBDA n :
             IF n = -1 THEN NoMatch
             ELSE Let(OptDose(t, RunEnd(t, n, Whitespace)),
                  LAMBDA d : Let(OptRoute(t, d[2]),
                  LAMBDA r : Let(OptFreq(t, r[2]),
                  LAMBDA f : MedGroups(t, p, n, d, r, f)))))

RECURSIVE MedMatchesFrom(_, _)
\* med_line_re.finditer(text) from position p on: the matches in order,
\* each search starting where the previous match ended.
MedMatchesFrom(t, p) ==
    Let({q \in p .. Len(t) : MedMatchAt(t, q).ok},
        LAMBDA hits :
            IF hits = {} THEN <<>>
            ELSE Let(MedMatchAt(t, SetMin(hits)),
                     LAMBDA m : <<m>> \o MedMatchesFrom(t, m.end)))

\* list(med_line_re.finditer(text)), line 334.
MedMatches(t) == MedMatchesFrom(t, 0)

\* "a or b" of Python for strings and None.
Or(a, b) == IF a # Null /\ a # <<>> THEN a ELSE b

\* The entry of lines 336-339, from the match's groups.
MedEntry(entry, m) ==
    [entry EXCEPT !.dosage = Or(entry.dosage, Or(m.dose, Null)),
                  !.frequency = Or(entry.frequency, Or(m.freq, Null)),
                  !.route = Or(entry.route, Or(m.route, Null))]

\* Lines 336-339 with the fields assigned from the match, whatever the
\* entry already holds.
MedEntryOverwrite(entry, m) ==
    [entry EXCEPT !.dosage = Or(m.dose, Null),
                  !.frequency = Or(m.freq, Null),
                  !.route = Or(m.route, Null)]

\* Lines 335-340 with MedEntryOverwrite for lines 337-339.
MedStepOverwrite(meds, m) ==
    Let(Strip(m.name),
        LAMBDA name :
            DictPut(meds, name,
                    MedEntryOverwrite(
                        IF DictHas(meds, name) THEN DictGet(meds, name)
                        ELSE Medication(name, Null, Null, Null, "rule_based"),
                        m)))

\* Lines 335-340: the body of the loop over the matches.
MedStep(meds, m) ==
    Let(Strip(m.name),
        LAMBDA name :
            DictPut(meds, name,
                    MedEntry(IF DictHas(meds, name) THEN DictGet(meds, name)
                             ELSE Medication(name, Null, Null, Null, "rule_based"),
                             m)))

RECURSIVE FoldMeds(_, _, _)
\* Lines 334-340: the loop, from match number i on.
FoldMeds(meds, ms, i) ==
    IF i > Len(ms) THEN meds
    ELSE Let(MedStep(meds, ms[i]), LAMBDA acc : FoldMeds(acc, ms, i + 1))

\* Lines 334-340: the medications of a whole text.
RuleMeds(t) == Let(MedMatches(t), LAMBDA ms : FoldMeds(<<>>, ms, 1))

(***************************************************************************)
(* extract_rule_based: diagnoses (lines 342-359)                           *)
(***************************************************************************)

\* The section headers of line 343, in order.
DIAG_HEADERS ==
    << <<"d", "i", "a", "g", "n", "o", "s", "i", "s">>,
       <<"d", "i", "a", "g", "n", "o", "s", "e", "s">>,
       <<"a", "s", "s", "e", "s", "s", "m", "e", "n", "t">>,
       <<"i", "m", "p", "r", "e", "s", "s", "i", "o", "n">> >>

\* Lines 315-317.
DIAG_WORDS ==
    << <<"d", "i", "a", "b", "e", "t", "e", "s">>,
       <<"h", "y", "p", "e", "r", "t", "e", "n", "s", "i", "o", "n">>,
       <<"p", "n", "e", "u", "m", "o", "n", "i", "a">>,
       <<"a", "s", "t", "h", "m", "a">>,
       <<"c", "o", "p", "d">>,
       <<"m", "i", "g", "r", "a", "i", "n", "e">>,
       <<"a", "n", "e", "m", "i", "a">>,
       <<"c", "o", "v", "i", "d", "-", "1", "9">> >>

\* A match whose only group spans from k to e and which ends at e.
GroupMatch(t, k, e) == [ok |-> TRUE, group |-> Slice(t, k, e), end |-> e]

\* \s*(.+) after the colon at c: \s* is greedy and gives characters back
\* until a character other than a line break follows; the group runs to the
\* end of the line.
HeaderGroupAt(t, c) ==
    Let({k \in c .. RunEnd(t, c, Whitespace) : At(t, k) \notin {"\n", EOT}},
        LAMBDA gaps :
            IF gaps = {} THEN NoMatch
            ELSE Let(Max(gaps), LAMBDA k : GroupMatch(t, k, StopAt(t, k, {"\n"}))))

\* header\s*:\s*(.+) under re.IGNORECASE at p (line 344): the captured group
\* and the end of the match.
HeaderMatchAt(t, p, header) ==
    IF ~MatchLitI(t, p, header) THEN NoMatch
    ELSE Let(RunEnd(t, p + Len(header), Whitespace),
             LAMBDA colon : IF At(t, colon) # ":" THEN NoMatch
                            ELSE HeaderGroupAt(t, colon + 1))

RECURSIVE HeaderFindAll(_, _, _)
\* re.findall(header pattern, text) from position p on.
HeaderFindAll(t, p, header) ==
    Let({q \in p .. Len(t) : HeaderMatchAt(t, q, header).ok},
        LAMBDA hits :
            IF hits = {} THEN <<>>
            ELSE Let(HeaderMatchAt(t, SetMin(hits), header),
                     LAMBDA m : <<m.group>> \o HeaderFindAll(t, m.end, header)))

RECURSIVE SplitFrom(_, _, _)
\* The pieces of re.split(r"[...]", s) that start at index p or later, for a
\* class seps of single characters.
SplitFrom(s, p, seps) ==
    Let(StopAt(s, p, seps),
        LAMBDA cut : IF cut = Len(s) THEN <<Slice(s, p, cut)>>
                     ELSE <<Slice(s, p, cut)>> \o SplitFrom(s, cut + 1, seps))

\* re.split(r"[...]", s)
SplitChars(s, seps) == SplitFrom(s, 0, seps)

\* The entry of line 352 without source="rule_based": the dataclass default.
DiagEntryDefaultSource(key, w) ==
    [k |-> key, v |-> Diagnosis(w, Null, Null, Null, "azure")]

\* The entry of line 352 for the phrase w under key.
DiagEntry(key, w) == [k |-> key, v |-> Diagnosis(w, Null, Null, Null, "rule_based")]

\* Lines 347-352: one candidate phrase of a header section.
DiagAddPiece(diags, piece) ==
    Let(StripPunct(piece),
        LAMBDA w : IF w = <<>> \/ DictHas(diags, Lower(w)) THEN diags
                   ELSE Append(diags, DiagEntry(Lower(w), w)))

RECURSIVE DiagAddPieces(_, _, _)
\* Line 346: the loop over the pieces of one section, from piece i on.
DiagAddPieces(diags, pieces, i) ==
    IF i > Len(pieces) THEN diags
    ELSE Let(DiagAddPiece(diags, pieces[i]),
             LAMBDA acc : DiagAddPieces(acc, pieces, i + 1))

RECURSIVE DiagAddSections(_, _, _)
\* Line 345: the loop over the sections found for one header, from section
\* i on.
DiagAddSections(diags, secs, i) ==
    IF i > Len(secs) THEN diags
    ELSE Let(SplitChars(secs[i], {",", ";", "\n"}),
             LAMBDA pieces :
                 Let(DiagAddPieces(diags, pieces, 1),
                     LAMBDA acc : DiagAddSections(acc, secs, i + 1)))

RECURSIVE DiagHeaders(_, _, _)
\* Lines 343-352: the loop over the headers, from header number h on.
DiagHeaders(diags, t, h) ==
    IF h > Len(DIAG_HEADERS) THEN diags
    ELSE Let(HeaderFindAll(t, 0, DIAG_HEADERS[h]),
             LAMBDA secs :
                 Let(DiagAddSections(diags, secs, 1),
                     LAMBDA acc : DiagHeaders(acc, t, h + 1)))

\* \b at p.
WordBoundary(t, p) == (At(t, p - 1) \in WordChars) # (At(t, p) \in WordChars)

\* \bw\b matches somewhere in t, under re.IGNORECASE (line 356).
WordFound(t, w) ==
    \E p \in 0 .. Len(t) :
        /\ MatchLitI(t, p, w)
        /\ WordBoundary(t, p)
        /\ WordBoundary(t, p + Len(w))

\* Lines 356-359 for one seed word.
DiagAddSeed(diags, t, w) ==
    IF WordFound(t, w) /\ ~DictHas(diags, Lower(w))
    THEN Append(diags, DiagEntry(Lower(w), w))
    ELSE diags

RECURSIVE DiagSeeds(_, _, _)
\* Lines 355-359: the seed vocabulary, from word number i on.
DiagSeeds(diags, t, i) ==
    IF i > Len(DIAG_WORDS) THEN diags
    ELSE Let(DiagAddSeed(diags, t, DIAG_WORDS[i]),
             LAMBDA acc : DiagSeeds(acc, t, i + 1))

\* Lines 342-359.
RuleDiagnoses(t) == Let(DiagHeaders(<<>>, t, 1), LAMBDA d : DiagSeeds(d, t, 1))

(***************************************************************************)
(* extract_rule_based: symptoms (lines 361-368)                            *)
(***************************************************************************)

\* Lines 318-320.
SYMPTOM_TRIGGERS ==
    << <<"c", "o", "m", "p", "l", "a", "i", "n", "s", " ", "o", "f">>,
       <<"r", "e", "p", "o", "r", "t", "s">>,
       <<"p", "r", "e", "s", "e", "n", "t", "s", " ", "w", "i", "t", "h">>,
       <<"s", "y", "m", "p", "t", "o", "m", "s", " ", "i", "n", "c", "l", "u", "d", "e">>,
       <<"c", "/", "o">>,
       <<"d", "e", "n", "i", "e", "s">> >>

\* \s+([^\.;\n]+) at c (line 363).  \s+ is greedy and gives characters back
\* until a character of the group's class follows.
TriggerGroupAt(t, c) ==
    Let({k \in (c + 1) .. RunEnd(t, c, Whitespace) :
            At(t, k) \notin {".", ";", "\n", EOT}},
        LAMBDA gaps :
            IF gaps = {} THEN NoMatch
            ELSE Let(Max(gaps),
                     LAMBDA k : GroupMatch(t, k, StopAt(t, k, {".", ";", "\n"}))))

\* trig\s+([^\.;\n]+) under re.IGNORECASE at p (line 363).
TriggerMatchAt(t, p, trig) ==
    IF ~MatchLitI(t, p, trig) THEN NoMatch ELSE TriggerGroupAt(t, p + Len(trig))

RECURSIVE TriggerFindAll(_, _, _)
\* The groups of re.finditer(trigger pattern, text) from position p on.
TriggerFindAll(t, p, trig) ==
    Let({q \in p .. Len(t) : TriggerMatchAt(t, q, trig).ok},
        LAMBDA hits :
            IF hits = {} THEN <<>>
            ELSE Let(TriggerMatchAt(t, SetMin(hits), trig),
                     LAMBDA m : <<m.group>> \o TriggerFindAll(t, m.end, trig)))

\* The separators of line 365, in the order of the alternation.
SYMPTOM_SEPS == << <<",">>, <<"a", "n", "d">>, <<"/">> >>

\* The end of the separator (,|and|/) that matches at p, or -1.
SepEnd(s, p) ==
    Let({k \in DOMAIN SYMPTOM_SEPS : MatchLit(s, p, SYMPTOM_SEPS[k])},
        LAMBDA hits : IF hits = {} THEN -1
                      ELSE p + Len(SYMPTOM_SEPS[SetMin(hits)]))

RECURSIVE SplitPhraseFrom(_, _)
\* The pieces of re.split(r",|and|/", s) that start at index p or later.
SplitPhraseFrom(s, p) ==
    Let({q \in p .. (Len(s) - 1) : SepEnd(s, q) # -1},
        LAMBDA cuts :
            IF cuts = {} THEN <<Slice(s, p, Len(s))>>
            ELSE Let(SetMin(cuts),
                     LAMBDA q : <<Slice(s, p, q)>> \o SplitPhraseFrom(s, SepEnd(s, q))))

\* re.split(r",|and|/", phrase)
SplitPhrase(s) == SplitPhraseFrom(s, 0)

\* Lines 366-368: one candidate of a phrase.
SymAddPiece(syms, piece) ==
    Let(StripPunct(piece),
        LAMBDA cand : IF cand # <<>>
                      THEN Append(syms, Symptom(cand, Null, Null, Null, "rule_based"))
                      ELSE syms)

RECURSIVE SymAddPieces(_, _, _)
\* Lines 365-368: the loop over the pieces of one phrase, from piece i on.
SymAddPieces(syms, pieces, i) ==
    IF i > Len(pieces) THEN syms
    ELSE Let(SymAddPiece(syms, pieces[i]),
             LAMBDA acc : SymAddPieces(acc, pieces, i + 1))

RECURSIVE SymAddPhrases(_, _, _)
\* Lines 363-368: the loop over the matches of one trigger, from match i on.
SymAddPhrases(syms, phrases, i) ==
    IF i > Len(phrases) THEN syms
    ELSE Let(SplitPhrase(phrases[i]),
             LAMBDA pieces :
                 Let(SymAddPieces(syms, pieces, 1),
                     LAMBDA acc : SymAddPhrases(acc, phrases, i + 1)))

RECURSIVE SymTriggers(_, _, _)
\* Lines 362-368: the loop over the triggers, from trigger number i on.
SymTriggers(syms, t, i) ==
    IF i > Len(SYMPTOM_TRIGGERS) THEN syms
    ELSE Let(TriggerFindAll(t, 0, SYMPTOM_TRIGGERS[i]),
             LAMBDA phrases :
                 Let(SymAddPhrases(syms, phrases, 1),
                     LAMBDA acc : SymTriggers(acc, t, i + 1)))

\* Lines 361-368.
RuleSymptoms(t) == SymTriggers(<<>>, t, 1)

(***************************************************************************)
(* extract_rule_based: labs (lines 370-383) and the envelope               *)
(***************************************************************************)

\* The units of LAB_UNIT, in the order of the alternation (lines 310-312).
LAB_UNIT ==
    << <<"%">>,
       <<"m", "g", "/", "d", "L">>,
       <<"m", "m", "o", "l", "/", "L">>,
       <<"g", "/", "L">>,
       <<"g", "/", "d", "L">>,
       <<"U", "/", "L">>,
       <<"I", "U", "/", "L">>,
       <<"n", "g", "/", "m", "L">>,
       <<"p", "g", "/", "m", "L">>,
       <<"m", "E", "q", "/", "L">>,
       <<"m", "m", "H", "g">>,
       <<"b", "p", "m">>,
       <<"°", "C">>,
       <<"1", "0", "^", "9", "/", "L">>,
       <<"x", "1", "0", "^", "9", "/", "L">>,
       <<"k", "/", "µ", "L">> >>

\* [A-Za-z0-9\-/ ] of the lab name group.
LabNameClass == Letters \cup Digits \cup {"-", "/", " "}

\* (?P<value>[-+]?\d+(?:\.\d+)?) at v: <<v, end of the value>>, or <<-1, -1>>.
SignedNumberAt(t, v) ==
    Let(NumberEnd(t, IF At(t, v) \in {"-", "+"} THEN v + 1 ELSE v),
        LAMBDA e : IF e = -1 THEN <<-1, -1>> ELSE <<v, e>>)

\* \s*[:=]\s*(?P<value>...) at p: the span of the value, or <<-1, -1>>.
LabValueAt(t, p) ==
    Let(RunEnd(t, p, Whitespace),
        LAMBDA sep : IF At(t, sep) \notin {":", "="} THEN <<-1, -1>>
                     ELSE SignedNumberAt(t, RunEnd(t, sep + 1, Whitespace)))

\* \s*(?P<unit>...)? at p: <<start of the unit, end of the match>>.
OptUnit(t, p) ==
    Let(RunEnd(t, p, Whitespace),
        LAMBDA u : Let(AltEndI(t, u, LAB_UNIT),
                       LAMBDA e : IF e = -1 THEN Skipped(u) ELSE <<u, e>>))

\* The groups of a match of lab_re that starts at p, with the name ending at
\* n, the value spanning v and the unit u.
LabGroups(t, p, n, v, u) ==
    [ok |-> TRUE, name |-> Slice(t, p, n), value |-> Slice(t, v[1], v[2]),
     unit |-> Group(t, u), end |-> u[2]]

\* lab_re.match at p (lines 371-374): the groups and the end of the match.
\* The name is the longest one after which the rest of the pattern matches.
LabMatchAt(t, p) ==
    IF At(t, p) \notin Letters THEN NoMatch
    ELSE Let({n \in (p + 3) .. RunEnd(t, p + 1, LabNameClass) :
                 LabValueAt(t, n)[1] # -1},
             LAMBDA cands :
                 IF cands = {} THEN NoMatch
                 ELSE Let(Max(cands),
                      LAMBDA n : Let(LabValueAt(t, n),
                      LAMBDA v : Let(OptUnit(t, v[2]),
                      LAMBDA u : LabGroups(t, p, n, v, u)))))

RECURSIVE LabMatchesFrom(_, _)
\* lab_re.finditer(text) from position p on.
LabMatchesFrom(t, p) ==
    Let({q \in p .. Len(t) : LabMatchAt(t, q).ok},
        LAMBDA hits :
            IF hits = {} THEN <<>>
            ELSE Let(LabMatchAt(t, SetMin(hits)),
                     LAMBDA m : <<m>> \o LabMatchesFrom(t, m.end)))

\* Lines 376-382: the record of one match.
LabOfMatch(m) == Lab(Strip(m.name), m.value, Or(m.unit, Null), Null, "rule_based")

\* Lines 375-383: one record per match.
RuleLabs(t) ==
    Let(LabMatchesFrom(t, 0), LAMBDA ms : [i \in DOMAIN ms |-> LabOfMatch(ms[i])])

\* Lines 385-391: the envelope extract_rule_based returns.
RuleEnvelope(meds, diags, syms, labs) ==
    [source |-> "rule_based", diagnoses |-> DictValues(diags),
     medications |-> DictValues(meds), symptoms |-> syms, labs |-> labs]

\* extract_rule_based(text), lines 323-391.
ExtractRuleBased(t) ==
    RuleEnvelope(RuleMeds(t), RuleDiagnoses(t), RuleSymptoms(t), RuleLabs(t))

(***************************************************************************)
(* extract_rule_based as a state machine (specification SpecRule)          *)
(***************************************************************************)

LineDiagnosis ==
    <<"D", "i", "a", "g", "n", "o", "s", "i", "s", ":", " ", "H", "y", "p",
      "e", "r", "t", "e", "n", "s", "i", "o", "n", ",", " ", "D", "i", "a",
      "b", "e", "t", "e", "s">>

LineLisinopril ==
    <<"L", "i", "s", "i", "n", "o", "p", "r", "i", "l", " ", "1", "0", "m",
      "g", " ", "P", "O", " ", "d", "a", "i", "l", "y">>

LineDoseOnly ==
    <<"L", "i", "s", "i", "n", "o", "p", "r", "i", "l", " ", "2", ".", "5",
      "m", "g">>

LineFull ==
    <<"L", "i", "s", "i", "n", "o", "p", "r", "i", "l", " ", "5", ".", "0",
      "m", "g", " ", "I", "V", " ", "b", "i", "d">>

LineHeld ==
    <<"L", "i", "s", "i", "n", "o", "p", "r", "i", "l", " ", "(", "h", "e",
      "l", "d", ")">>

LineLab ==
    <<"S", "o", "d", "i", "u", "m", ":", " ", "1", "3", "4", " ", "m", "m",
      "o", "l", "/", "L">>

LineSymptom ==
    <<"P", "a", "t", "i", "e", "n", "t", " ", "r", "e", "p", "o", "r", "t",
      "s", " ", "c", "o", "u", "g", "h", " ", "a", "n", "d", " ", "f", "e",
      "v", "e", "r", ".">>

\* The lines the input texts are made of.
LinePool ==
    {LineDiagnosis, LineLisinopril, LineDoseOnly, LineFull, LineHeld, LineLab,
     LineSymptom}

\* Bound: a text has at most MaxLines lines.
MaxLines == 2

RECURSIVE LineTexts(_)
\* The texts of 1 .. n lines of LinePool joined by "\n".
LineTexts(n) ==
    IF n = 1 THEN LinePool
    ELSE LET shorter == LineTexts(n - 1)
         IN  shorter \cup {t \o <<NL>> \o l : t \in shorter, l \in LinePool}

RuleTexts == {<<>>} \cup LineTexts(MaxLines)

\* The example of the specification's section 8.
ExampleText == LineDiagnosis \o <<NL>> \o LineLisinopril

ChunkIdle ==
    /\ text = <<>>
    /\ max_chars = 1
    /\ start = 0
    /\ chunks = <<>>
    /\ ck_pc = "idle"

\* Lines 323-327: extract_rule_based is entered.
InitRule ==
    /\ rb_text \in RuleTexts
    /\ rb_i = 1
    /\ rb_meds = <<>>
    /\ rb_diagnoses = <<>>
    /\ rb_symptoms = <<>>
    /\ rb_labs = <<>>
    /\ rb_result = Null
    /\ rb_pc = "meds"
    /\ ChunkIdle
    /\ CoIdle

\* Lines 334-340: one iteration of the loop over the medication matches.
RuleMedIter ==
    /\ rb_pc = "meds"
    /\ rb_i <= Len(MedMatches(rb_text))
    /\ \E m \in {MedMatches(rb_text)[rb_i]} : rb_meds' = MedStep(rb_meds, m)
    /\ rb_i' = rb_i + 1
    /\ UNCHANGED <<rb_text, rb_diagnoses, rb_symptoms, rb_labs, rb_result, rb_pc>>
    /\ UNCHANGED <<chunkVars, coVars, envVars, azVars>>

\* Lines 342-383: the matches are exhausted; diagnoses, symptoms and labs
\* are collected.
RuleScan ==
    /\ rb_pc = "meds"
    /\ rb_i > Len(MedMatches(rb_text))
    /\ rb_diagnoses' = RuleDiagnoses(rb_text)
    /\ rb_symptoms' = RuleSymptoms(rb_text)
    /\ rb_labs' = RuleLabs(rb_text)
    /\ rb_pc' = "return"
    /\ UNCHANGED <<rb_text, rb_i, rb_meds, rb_result>>
    /\ UNCHANGED <<chunkVars, coVars, envVars, azVars>>

\* Lines 385-391.
RuleReturn ==
    /\ rb_pc = "return"
    /\ rb_result' = RuleEnvelope(rb_meds, rb_diagnoses, rb_symptoms, rb_labs)
    /\ rb_pc' = "done"
    /\ UNCHANGED <<rb_text, rb_i, rb_meds, rb_diagnoses, rb_symptoms, rb_labs>>
    /\ UNCHANGED <<chunkVars, coVars, envVars, azVars>>

NextRule == RuleMedIter \/ RuleScan \/ RuleReturn

(***************************************************************************)
(* analyze_with_azure: the entity pass and the relation pass               *)
(* (lines 175-187, 225-291)                                                *)
(***************************************************************************)

\* The upper-case letter of each lower-case letter.
UpperOf ==
    "a" :> "A" @@ "b" :> "B" @@ "c" :> "C" @@ "d" :> "D" @@ "e" :> "E" @@
    "f" :> "F" @@ "g" :> "G" @@ "h" :> "H" @@ "i" :> "I" @@ "j" :> "J" @@
    "k" :> "K" @@ "l" :> "L" @@ "m" :> "M" @@ "n" :> "N" @@ "o" :> "O" @@
    "p" :> "P" @@ "q" :> "Q" @@ "r" :> "R" @@ "s" :> "S" @@ "t" :> "T" @@
    "u" :> "U" @@ "v" :> "V" @@ "w" :> "W" @@ "x" :> "X" @@ "y" :> "Y" @@
    "z" :> "Z"

\* str.upper() on one character.
ToUpper(c) == IF c \in DOMAIN UpperOf THEN UpperOf[c] ELSE c

\* str.upper()
Upper(s) == SubSeq([i \in DOMAIN s |-> ToUpper(s[i])], 1, Len(s))

\* sub in s
Contains(s, sub) == \E p \in 0 .. Len(s) : MatchLit(s, p, sub)

\* The attributes normalize_assertion copies, in its order (line 180).
ASSERTION_ATTRS == <<"certainty", "conditionality", "association", "is_negated">>

\* normalize_assertion (lines 175-183).  An assertion object is the sequence
\* of the names of its attributes; the result keeps those of ASSERTION_ATTRS,
\* in that order, and is None when the object is None or has none of them.
NormalizeAssertion(assertion) ==
    IF assertion = Null THEN Null
    ELSE Let(SelectSeq(ASSERTION_ATTRS, LAMBDA a : a \in Range(assertion)),
             LAMBDA out : IF out = <<>> THEN Null ELSE out)

\* entity_key with the offset counted from the start of the text instead of
\* the start of the chunk, the chunks taken at their longest.
EntityKeyInText(e) ==
    <<e.text, e.category, e.offset + ((served - Len(result_pages) + az_j - 1) * 120000)>>

\* entity_key (lines 186-187)
EntityKey(e) == <<e.text, e.category, e.offset>>

\* str(getattr(ent, "category", "")).upper(), line 227.
Cat(ent) == Upper(ent.category)

\* Line 233: the Diagnosis built from an entity.
DiagnosisOf(ent) ==
    Diagnosis(ent.text, ent.normalized_text, ent.confidence_score,
              NormalizeAssertion(ent.assertion), "azure")

\* Line 235: the Symptom built from an entity.
SymptomOf(ent) ==
    Symptom(ent.text, ent.normalized_text, ent.confidence_score,
            NormalizeAssertion(ent.assertion), "azure")

\* Line 239: the Medication built from an entity.
MedicationOf(ent) ==
    Medication(ent.text, ent.normalized_text, ent.confidence_score,
               NormalizeAssertion(ent.assertion), "azure")

\* Line 242: the Lab built from an entity.
LabOf(ent) == Lab(ent.text, Null, Null, ent.confidence_score, "azure")

\* Lines 232-233: what the entity pass does to diagnoses for one entity.
EntityDiagnoses(d, ent) ==
    IF Cat(ent) = <<"D", "I", "A", "G", "N", "O", "S", "I", "S">>
    THEN DictPut(d, EntityKey(ent), DiagnosisOf(ent))
    ELSE d

\* Lines 234-235: what the entity pass does to symptoms for one entity.
EntitySymptoms(d, ent) ==
    IF Cat(ent) = <<"S", "Y", "M", "P", "T", "O", "M", "_", "O", "R", "_", "S", "I", "G", "N">>
    THEN DictPut(d, EntityKey(ent), SymptomOf(ent))
    ELSE d

\* Lines 236-240 with an item assignment in place of setdefault.
EntityMedsOverwrite(d, ent) ==
    IF Cat(ent) = <<"M", "E", "D", "I", "C", "A", "T", "I", "O", "N", "_", "N", "A", "M", "E">>
    THEN DictPut(d, EntityKey(ent), MedicationOf(ent))
    ELSE d

\* Lines 236-240: what the entity pass does to meds for one entity.
EntityMeds(d, ent) ==
    IF Cat(ent) = <<"M", "E", "D", "I", "C", "A", "T", "I", "O", "N", "_", "N", "A", "M", "E">>
    THEN DictSetDefault(d, EntityKey(ent), MedicationOf(ent))
    ELSE d

\* Lines 241-242: what the entity pass does to labs for one entity.
EntityLabs(d, ent) ==
    IF Cat(ent) = <<"E", "X", "A", "M", "I", "N", "A", "T", "I", "O", "N", "_", "N", "A", "M", "E">>
    THEN DictSetDefault(d, EntityKey(ent), LabOf(ent))
    ELSE d

RECURSIVE RolesFrom(_, _, _)
\* Line 247 from role number i on: every role is stored under its upper-cased
\* name, a repeated name keeping its place and taking the later entity.
RolesFrom(roles, rel, i) ==
    IF i > Len(rel.roles) THEN roles
    ELSE Let(DictPut(roles, Upper(rel.roles[i].name), rel.roles[i].entity),
             LAMBDA acc : RolesFrom(acc, rel, i + 1))

\* roles = {name.upper(): r.entity for r in rel.roles}, line 247.
Roles(rel) == RolesFrom(<<>>, rel, 1)

\* Lines 249-253 and 278-282 with the last match taken: a loop without its
\* break.
AnchorLast(roles, word) ==
    Let({i \in DOMAIN roles : Contains(roles[i].k, word)},
        LAMBDA hits : IF hits = {} THEN 0 ELSE Max(hits))

\* Lines 249-253 and 278-282: the place in roles of the first role, in the
\* order of the dictionary, whose name contains word; 0 when there is none
\* (med_ent, exam_ent stay None).
Anchor(roles, word) ==
    Let({i \in DOMAIN roles : Contains(roles[i].k, word)},
        LAMBDA hits : IF hits = {} THEN 0 ELSE SetMin(hits))

\* A field that is set from the role only while it is unset.
RoleFieldIfUnset(cur, roles, label) ==
    IF cur = Null /\ DictHas(roles, label) THEN DictGet(roles, label).text ELSE cur

\* if label in roles: field = getattr(roles[label], "text", None)
\* (lines 261-266, 285-290): the new value of a field whose value is cur.
RoleField(cur, roles, label) ==
    IF DictHas(roles, label) THEN DictGet(roles, label).text ELSE cur

\* roles.get(a) or roles.get(b)
GetEither(roles, a, b) ==
    IF DictHas(roles, a) THEN DictGet(roles, a) ELSE DictGet(roles, b)

\* Lines 267-274: a field that two role names feed; the entity objects are
\* truthy.
RoleFieldEither(cur, roles, a, b) ==
    IF DictHas(roles, a) \/ DictHas(roles, b)
    THEN GetEither(roles, a, b).text
    ELSE cur

\* Lines 261-274: the medication m after the roles of a relation.
EnrichMedication(m, roles) ==
    [m EXCEPT
        !.dosage = RoleField(m.dosage, roles, <<"D", "O", "S", "A", "G", "E">>),
        !.frequency = RoleField(m.frequency, roles, <<"F", "R", "E", "Q", "U", "E", "N", "C", "Y">>),
        !.route = RoleFieldEither(RoleField(m.route, roles, <<"R", "O", "U", "T", "E">>), roles,
                                  <<"R", "O", "U", "T", "E", "O", "F", "A", "D", "M", "I", "N", "I", "S", "T", "R", "A", "T", "I", "O", "N">>,
                                  <<"R", "O", "U", "T", "E", "_", "O", "F", "_", "A", "D", "M", "I", "N", "I", "S", "T", "R", "A", "T", "I", "O", "N">>),
        !.form = RoleFieldEither(m.form, roles, <<"F", "O", "R", "M">>, <<"M", "E", "D", "I", "C", "A", "T", "I", "O", "N", "_", "F", "O", "R", "M">>)]

\* Lines 285-290: the lab after the roles of a relation.
EnrichLab(lab, roles) ==
    [lab EXCEPT
        !.value = RoleField(lab.value, roles, <<"M", "E", "A", "S", "U", "R", "E", "M", "E", "N", "T", "_", "V", "A", "L", "U", "E">>),
        !.unit = RoleField(lab.unit, roles, <<"M", "E", "A", "S", "U", "R", "E", "M", "E", "N", "T", "_", "U", "N", "I", "T">>),
        !.operator = RoleField(lab.operator, roles, <<"R", "E", "L", "A", "T", "I", "O", "N", "A", "L", "_", "O", "P", "E", "R", "A", "T", "O", "R">>)]

\* Line 258: the Medication created for an anchor that has no record yet.
MedicationOfAnchor(med_ent) ==
    Medication(med_ent.text, med_ent.normalized_text, Null, Null, "azure")

\* Line 284: the Lab created for an anchor that has no record yet.
LabOfAnchor(exam_ent) == Lab(exam_ent.text, Null, Null, Null, "azure")

\* Lines 254-274 for the anchor med_ent: setdefault, then the fields are set
\* on the record the dictionary holds.
EnrichMeds(d, med_ent, roles) ==
    Let(DictSetDefault(d, EntityKey(med_ent), MedicationOfAnchor(med_ent)),
        LAMBDA d1 :
            DictPut(d1, EntityKey(med_ent),
                    EnrichMedication(DictGet(d1, EntityKey(med_ent)), roles)))

\* Lines 283-290 for the anchor exam_ent.
EnrichLabs(d, exam_ent, roles) ==
    Let(DictSetDefault(d, EntityKey(exam_ent), LabOfAnchor(exam_ent)),
        LAMBDA d1 :
            DictPut(d1, EntityKey(exam_ent),
                    EnrichLab(DictGet(d1, EntityKey(exam_ent)), roles)))

\* Lines 247-274: what the relation pass does to meds for one relation.
RelationMeds(d, rel) ==
    Let(Roles(rel),
        LAMBDA roles :
            Let(Anchor(roles, <<"M", "E", "D", "I", "C", "A", "T", "I", "O", "N">>),
                LAMBDA a : IF a = 0 THEN d ELSE EnrichMeds(d, roles[a].v, roles)))

\* Lines 247, 277-290: what the relation pass does to labs for one relation.
RelationLabs(d, rel) ==
    Let(Roles(rel),
        LAMBDA roles :
            Let(Anchor(roles, <<"E", "X", "A", "M", "I", "N", "A", "T", "I", "O", "N">>),
                LAMBDA a : IF a = 0 THEN d ELSE EnrichLabs(d, roles[a].v, roles)))

\* Lines 293-299: the envelope analyze_with_azure returns.
AzureEnvelope(diags, meds, syms, labs) ==
    [source |-> "azure", diagnoses |-> DictValues(diags),
     medications |-> DictValues(meds), symptoms |-> DictValues(syms),
     labs |-> DictValues(labs)]

(***************************************************************************)
(* What the remote service answers: entities, relations, pages             *)
(***************************************************************************)

\* An entity of a doc_result.
Entity(txt, category, offset, normalized_text, confidence_score, assertion) ==
    [text |-> txt, category |-> category, offset |-> offset,
     normalized_text |-> normalized_text,
     confidence_score |-> confidence_score, assertion |-> assertion]

\* An entity that only serves as the span of a role.
Span(txt, category, offset) == Entity(txt, category, offset, Null, Null, Null)

\* One role of a relation.
Role(name, entity) == [name |-> name, entity |-> entity]

EntAsthma ==
    Entity(<<"a", "s", "t", "h", "m", "a">>, <<"D", "i", "a", "g", "n", "o", "s", "i", "s">>, 10, <<"J", "4", "5">>, <<"0", ".", "9">>, <<"certainty">>)

\* The same detection as EntAsthma, without the optional fields.
EntAsthmaBare == Span(<<"a", "s", "t", "h", "m", "a">>, <<"D", "i", "a", "g", "n", "o", "s", "i", "s">>, 10)

\* The assertion object has none of the attributes normalize_assertion reads.
EntCough ==
    Entity(<<"c", "o", "u", "g", "h">>, <<"s", "y", "m", "p", "t", "o", "m", "_", "o", "r", "_", "s", "i", "g", "n">>, 3, Null, <<"0", ".", "6">>, <<"vendor">>)

EntAspirin ==
    Entity(<<"a", "s", "p", "i", "r", "i", "n">>, <<"M", "E", "D", "I", "C", "A", "T", "I", "O", "N", "_", "N", "A", "M", "E">>, 5, <<"A", "S", "A">>, <<"0", ".", "8">>,
           <<"is_negated", "vendor", "certainty">>)

\* The same detection as EntAspirin, without the optional fields.
EntAspirinBare == Span(<<"a", "s", "p", "i", "r", "i", "n">>, <<"M", "E", "D", "I", "C", "A", "T", "I", "O", "N", "_", "N", "A", "M", "E">>, 5)

EntSodium == Entity(<<"s", "o", "d", "i", "u", "m">>, <<"E", "x", "a", "m", "i", "n", "a", "t", "i", "o", "n", "_", "N", "a", "m", "e">>, 20, Null, <<"0", ".", "7">>, Null)

\* An entity of a category the entity pass does not collect.
EntDose == Span(<<"5", "0", "0", "m", "g">>, <<"D", "o", "s", "a", "g", "e">>, 13)

\* A second diagnosis.
EntEczema == Span(<<"e", "c", "z", "e", "m", "a">>, <<"D", "i", "a", "g", "n", "o", "s", "i", "s">>, 30)

EntityPool ==
    {EntAsthma, EntAsthmaBare, EntCough, EntAspirin, EntAspirinBare, EntSodium,
     EntDose}

\* A medication with its dose and route.
RelDose ==
    [roles |-> <<Role(<<"M", "e", "d", "i", "c", "a", "t", "i", "o", "n">>, EntAspirin), Role(<<"D", "o", "s", "a", "g", "e">>, EntDose),
                 Role(<<"R", "o", "u", "t", "e">>, Span(<<"P", "O">>, <<"R", "o", "u", "t", "e">>, 19))>>]

\* The same medication with another dose, the anchor last.
RelDoseLater ==
    [roles |-> <<Role(<<"D", "o", "s", "a", "g", "e">>, Span(<<"2", "5", "0", "m", "g">>, <<"D", "o", "s", "a", "g", "e">>, 33)),
                 Role(<<"M", "e", "d", "i", "c", "a", "t", "i", "o", "n">>, EntAspirinBare)>>]

\* Both names of the route, and a frequency.
RelRoutes ==
    [roles |-> <<Role(<<"M", "e", "d", "i", "c", "a", "t", "i", "o", "n">>, EntAspirin),
                 Role(<<"r", "o", "u", "t", "e", "_", "o", "f", "_", "a", "d", "m", "i", "n", "i", "s", "t", "r", "a", "t", "i", "o", "n">>, Span(<<"I", "V">>, <<"R", "o", "u", "t", "e">>, 40)),
                 Role(<<"R", "o", "u", "t", "e">>, Span(<<"P", "O">>, <<"R", "o", "u", "t", "e">>, 19)),
                 Role(<<"F", "r", "e", "q", "u", "e", "n", "c", "y">>, Span(<<"d", "a", "i", "l", "y">>, <<"F", "r", "e", "q", "u", "e", "n", "c", "y">>, 22))>>]

\* The form before the medication: both role names contain MEDICATION.
RelForm ==
    [roles |-> <<Role(<<"M", "e", "d", "i", "c", "a", "t", "i", "o", "n", "_", "F", "o", "r", "m">>, Span(<<"t", "a", "b", "l", "e", "t">>, <<"F", "o", "r", "m">>, 50)),
                 Role(<<"M", "e", "d", "i", "c", "a", "t", "i", "o", "n">>, EntAspirin)>>]

\* A lab with its value and unit.
RelValue ==
    [roles |-> <<Role(<<"E", "x", "a", "m", "i", "n", "a", "t", "i", "o", "n">>, EntSodium),
                 Role(<<"M", "e", "a", "s", "u", "r", "e", "m", "e", "n", "t", "_", "V", "a", "l", "u", "e">>, Span(<<"1", "3", "4">>, <<"V", "a", "l", "u", "e">>, 28)),
                 Role(<<"M", "e", "a", "s", "u", "r", "e", "m", "e", "n", "t", "_", "U", "n", "i", "t">>, Span(<<"m", "m", "o", "l", "/", "L">>, <<"U", "n", "i", "t">>, 32))>>]

\* The same lab with another value and an operator.
RelValueLater ==
    [roles |-> <<Role(<<"R", "e", "l", "a", "t", "i", "o", "n", "a", "l", "_", "O", "p", "e", "r", "a", "t", "o", "r">>, Span(<<"<">>, <<"O", "p", "e", "r", "a", "t", "o", "r">>, 60)),
                 Role(<<"M", "e", "a", "s", "u", "r", "e", "m", "e", "n", "t", "_", "V", "a", "l", "u", "e">>, Span(<<"1", "4", "0">>, <<"V", "a", "l", "u", "e">>, 62)),
                 Role(<<"E", "x", "a", "m", "i", "n", "a", "t", "i", "o", "n", "_", "N", "a", "m", "e">>, EntSodium)>>]

\* A second medication.
EntIbuprofen ==
    Span(<<"i", "b", "u", "p", "r", "o", "f", "e", "n">>, <<"M", "e", "d", "i", "c", "a", "t", "i", "o", "n", "N", "a", "m", "e">>, 70)

\* Two roles whose names are the same label once upper-cased, with
\* different entities.
RelTwoMeds ==
    [roles |-> <<Role(<<"M", "e", "d", "i", "c", "a", "t", "i", "o", "n">>, EntAspirin),
                 Role(<<"M", "E", "D", "I", "C", "A", "T", "I", "O", "N">>, EntIbuprofen),
                 Role(<<"D", "o", "s", "a", "g", "e">>, EntDose)>>]

RelationPool ==
    {RelDose, RelDoseLater, RelRoutes, RelForm, RelValue, RelValueLater}

\* A doc_result without is_error.
Page(entities, relations) ==
    [kind |-> "ok", entities |-> entities, relations |-> relations]

\* A doc_result with is_error set.  It carries a detection and a relation
\* that no other page of the pool of several pages carries, which line 222
\* passes over.
ErrorPage == [kind |-> "error", entities |-> <<EntCough>>, relations |-> <<RelValueLater>>]

\* A result without the entities attribute.
MalformedPage == [kind |-> "malformed", entities |-> <<>>, relations |-> <<>>]

EmptyPage == Page(<<>>, <<>>)

(***************************************************************************)
(* analyze_with_azure and extract_health_from_text as a state machine      *)
(***************************************************************************)

\* Line 203.
BATCH == 25

\* t and t.strip(), line 209.
HasText(t) == t # <<>> /\ Strip(t) # <<>>

\* str(n) for n >= 0, line 207.
RECURSIVE Str(_)
Str(n) ==
    LET digit == <<"0", "1", "2", "3", "4", "5", "6", "7", "8", "9">>[(n % 10) + 1]
    IN  IF n < 10 THEN <<digit>> ELSE Str(n \div 10) \o <<digit>>

\* Lines 205-210 with the slice one document too long:
\* batch = documents[i : i + BATCH + 1].
PayloadOverlap(docs, i) ==
    LET batch == SubSeq(docs, i + 1, Min(i + BATCH + 1, Len(docs)))
        js    == SelectSeq([k \in 1 .. Len(batch) |-> k - 1], LAMBDA j : batch[j + 1])
    IN  [k \in 1 .. Len(js) |->
            [id |-> Str(i + js[k]), language |-> "en", text |-> batch[js[k] + 1]]]

\* Lines 205-210: the payload of the batch that starts at 0-based index i:
\* one record per document of the batch for which "t and t.strip()" holds, in
\* the order of the batch, with id str(i + j) for the document at index j of
\* the batch.  A document is kept as the value of "t and t.strip()" for it.
Payload(docs, i) ==
    LET batch == SubSeq(docs, i + 1, Min(i + BATCH, Len(docs)))
        js    == SelectSeq([k \in 1 .. Len(batch) |-> k - 1], LAMBDA j : batch[j + 1])
    IN  [k \in 1 .. Len(js) |->
            [id |-> Str(i + js[k]), language |-> "en", text |-> batch[js[k] + 1]]]

\* An exception object: its class and its message.
Raised(class, message) == <<class, message>>

\* Lines 213-217: what leaves the try block when the call raises an exception
\* of class kind: an HttpResponseError is wrapped into a RuntimeError, any
\* other exception passes.
CallFailure(kind) ==
    IF kind = "HttpResponseError"
    THEN Raised("RuntimeError", "Azure call failed")
    ELSE Raised(kind, "")

\* The classes of the exceptions the adapter can raise; all derive from
\* Exception.
ExceptionClasses == {"RuntimeError", "ServiceRequestError", "AttributeError"}

\* except RuntimeError in place of except Exception.
IsRuntimeError(exc) == exc[1] = "RuntimeError"

\* except Exception, line 402: the handler catches exc.
IsException(exc) == exc[1] \in ExceptionClasses

\* Lines 399-401: extract_health_from_text enters the try block and calls
\* analyze_with_azure.
CoTry ==
    /\ co_pc = "start"
    /\ co_pc' = "try"
    /\ az_calls' = az_calls + 1
    /\ az_pc' = "entry"
    /\ UNCHANGED <<co_text, co_result, rb_calls>>
    /\ UNCHANGED <<documents, az_diagnoses, az_symptoms, az_meds, az_labs, az_i,
                   remote_calls, served, payload, result_pages, az_j, az_e, az_r, az_exc,
                   az_result>>
    /\ UNCHANGED <<chunkVars, ruleVars, envVars>>

\* Lines 191-193: no client is configured.
AzNotConfigured ==
    /\ az_pc = "entry"
    /\ client = Null
    /\ az_exc' = Raised("RuntimeError", "Azure client not configured")
    /\ az_pc' = "raised"
    /\ UNCHANGED <<documents, az_diagnoses, az_symptoms, az_meds, az_labs, az_i,
                   remote_calls, served, payload, result_pages, az_j, az_e, az_r,
                   az_result>>
    /\ UNCHANGED <<chunkVars, ruleVars, coVars, envVars>>

\* Lines 195-204: the text is chunked and the four dictionaries are created.
AzChunk ==
    /\ az_pc = "entry"
    /\ client # Null
    /\ documents' = chunked
    /\ az_diagnoses' = <<>>
    /\ az_symptoms' = <<>>
    /\ az_meds' = <<>>
    /\ az_labs' = <<>>
    /\ az_i' = 0
    /\ az_pc' = "batch"
    /\ UNCHANGED <<remote_calls, served, payload, result_pages, az_j, az_e, az_r, az_exc,
                   az_result>>
    /\ UNCHANGED <<chunkVars, ruleVars, coVars, envVars>>

\* Lines 204-212: a batch whose payload is empty is passed over.
AzBatchEmpty ==
    /\ az_pc = "batch"
    /\ az_i < Len(documents)
    /\ Payload(documents, az_i) = <<>>
    /\ payload' = Payload(documents, az_i)
    /\ az_i' = az_i + BATCH
    /\ UNCHANGED <<az_pc, documents, az_diagnoses, az_symptoms, az_meds, az_labs,
                   remote_calls, served, result_pages, az_j, az_e, az_r, az_exc,
                   az_result>>
    /\ UNCHANGED <<chunkVars, ruleVars, coVars, envVars>>

\* The call for the batch raises and the adapter, instead of raising, returns
\* what it has collected.
AzCallFailsPartial ==
    /\ az_pc = "batch"
    /\ az_i < Len(documents)
    /\ Payload(documents, az_i) # <<>>
    /\ service.fail_at = remote_calls + 1
    /\ payload' = Payload(documents, az_i)
    /\ remote_calls' = remote_calls + 1
    /\ az_result' = AzureEnvelope(az_diagnoses, az_meds, az_symptoms, az_labs)
    /\ az_pc' = "returned"
    /\ UNCHANGED <<documents, az_diagnoses, az_symptoms, az_meds, az_labs, az_i,
                   served, result_pages, az_j, az_e, az_r, az_exc>>
    /\ UNCHANGED <<chunkVars, ruleVars, coVars, envVars>>

\* Lines 213-217: the call for the batch raises.
AzCallFails ==
    /\ az_pc = "batch"
    /\ az_i < Len(documents)
    /\ Payload(documents, az_i) # <<>>
    /\ service.fail_at = remote_calls + 1
    /\ payload' = Payload(documents, az_i)
    /\ remote_calls' = remote_calls + 1
    /\ az_exc' = CallFailure(service.fail_kind)
    /\ az_pc' = "raised"
    /\ UNCHANGED <<documents, az_diagnoses, az_symptoms, az_meds, az_labs, az_i,
                   served, result_pages, az_j, az_e, az_r, az_result>>
    /\ UNCHANGED <<chunkVars, ruleVars, coVars, envVars>>

\* Lines 213-215: the call for the batch returns one page per document of
\* the payload.
AzCall ==
    /\ az_pc = "batch"
    /\ az_i < Len(documents)
    /\ Payload(documents, az_i) # <<>>
    /\ service.fail_at # remote_calls + 1
    /\ payload' = Payload(documents, az_i)
    /\ remote_calls' = remote_calls + 1
    /\ result_pages' = SubSeq(service.pages, served + 1, served + Len(payload'))
    /\ served' = served + Len(payload')
    /\ az_j' = 1
    /\ az_e' = 1
    /\ az_r' = 1
    /\ az_pc' = "doc"
    /\ UNCHANGED <<documents, az_diagnoses, az_symptoms, az_meds, az_labs, az_i,
                   az_exc, az_result>>
    /\ UNCHANGED <<chunkVars, ruleVars, coVars, envVars>>

\* The doc_result the loop of line 219 is at.
DocResult == result_pages[az_j]

\* A doc_result is being processed.
InDoc == az_pc = "doc" /\ az_j <= Len(result_pages)

\* Lines 219-222 with the errored document ending the call.
AzDocErrorAborts ==
    /\ InDoc
    /\ DocResult.kind = "error"
    /\ az_exc' = Raised("RuntimeError", "document error")
    /\ az_pc' = "raised"
    /\ UNCHANGED <<documents, az_diagnoses, az_symptoms, az_meds, az_labs, az_i,
                   remote_calls, served, payload, result_pages, az_j, az_e, az_r,
                   az_result>>
    /\ UNCHANGED <<chunkVars, ruleVars, coVars, envVars>>

\* Lines 219-222: a doc_result with is_error is skipped.
AzDocError ==
    /\ InDoc
    /\ DocResult.kind = "error"
    /\ az_j' = az_j + 1
    /\ UNCHANGED <<az_pc, documents, az_diagnoses, az_symptoms, az_meds, az_labs,
                   az_i, remote_calls, served, payload, result_pages, az_e, az_r, az_exc,
                   az_result>>
    /\ UNCHANGED <<chunkVars, ruleVars, coVars, envVars>>

\* Line 225: a result without the attribute entities.
AzDocMalformed ==
    /\ InDoc
    /\ DocResult.kind = "malformed"
    /\ az_exc' = Raised("AttributeError", "entities")
    /\ az_pc' = "raised"
    /\ UNCHANGED <<documents, az_diagnoses, az_symptoms, az_meds, az_labs, az_i,
                   remote_calls, served, payload, result_pages, az_j, az_e, az_r,
                   az_result>>
    /\ UNCHANGED <<chunkVars, ruleVars, coVars, envVars>>

\* Lines 225-242: one entity of the first pass.
AzEntity ==
    /\ InDoc
    /\ DocResult.kind = "ok"
    /\ az_e <= Len(DocResult.entities)
    /\ \E ent \in {DocResult.entities[az_e]} :
          /\ az_diagnoses' = EntityDiagnoses(az_diagnoses, ent)
          /\ az_symptoms' = EntitySymptoms(az_symptoms, ent)
          /\ az_meds' = EntityMeds(az_meds, ent)
          /\ az_labs' = EntityLabs(az_labs, ent)
    /\ az_e' = az_e + 1
    /\ UNCHANGED <<az_pc, documents, az_i, remote_calls, served, payload, result_pages,
                   az_j, az_r, az_exc, az_result>>
    /\ UNCHANGED <<chunkVars, ruleVars, coVars, envVars>>

\* Lines 245-291: one relation of the second pass.
AzRelation ==
    /\ InDoc
    /\ DocResult.kind = "ok"
    /\ az_e > Len(DocResult.entities)
    /\ az_r <= Len(DocResult.relations)
    /\ \E rel \in {DocResult.relations[az_r]} :
          /\ az_meds' = RelationMeds(az_meds, rel)
          /\ az_labs' = RelationLabs(az_labs, rel)
    /\ az_r' = az_r + 1
    /\ UNCHANGED <<az_pc, documents, az_diagnoses, az_symptoms, az_i,
                   remote_calls, served, payload, result_pages, az_j, az_e, az_exc,
                   az_result>>
    /\ UNCHANGED <<chunkVars, ruleVars, coVars, envVars>>

\* Line 219: both passes are through; the loop goes to the next doc_result.
AzDocDone ==
    /\ InDoc
    /\ DocResult.kind = "ok"
    /\ az_e > Len(DocResult.entities)
    /\ az_r > Len(DocResult.relations)
    /\ az_j' = az_j + 1
    /\ az_e' = 1
    /\ az_r' = 1
    /\ UNCHANGED <<az_pc, documents, az_diagnoses, az_symptoms, az_meds, az_labs,
                   az_i, remote_calls, served, payload, result_pages, az_exc, az_result>>
    /\ UNCHANGED <<chunkVars, ruleVars, coVars, envVars>>

\* Line 204: the pages of the batch are through; the next batch.
AzBatchDone ==
    /\ az_pc = "doc"
    /\ az_j > Len(result_pages)
    /\ az_i' = az_i + BATCH
    /\ az_pc' = "batch"
    /\ UNCHANGED <<documents, az_diagnoses, az_symptoms, az_meds, az_labs,
                   remote_calls, served, payload, result_pages, az_j, az_e, az_r, az_exc,
                   az_result>>
    /\ UNCHANGED <<chunkVars, ruleVars, coVars, envVars>>

\* Lines 293-299: the batches are through; the envelope is returned.
AzReturn ==
    /\ az_pc = "batch"
    /\ az_i >= Len(documents)
    /\ az_result' = AzureEnvelope(az_diagnoses, az_meds, az_symptoms, az_labs)
    /\ az_pc' = "returned"
    /\ UNCHANGED <<documents, az_diagnoses, az_symptoms, az_meds, az_labs, az_i,
                   remote_calls, served, payload, result_pages, az_j, az_e, az_r, az_exc>>
    /\ UNCHANGED <<chunkVars, ruleVars, coVars, envVars>>

\* Line 401: the envelope of analyze_with_azure is returned.
CoReturnAzure ==
    /\ co_pc = "try"
    /\ az_pc = "returned"
    /\ co_result' = az_result
    /\ co_pc' = "done"
    /\ UNCHANGED <<co_text, az_calls, rb_calls>>
    /\ UNCHANGED <<chunkVars, ruleVars, envVars, azVars>>

\* Lines 402-404: the exception is caught and extract_rule_based is entered
\* (lines 323-327).
CoFallback ==
    /\ co_pc = "try"
    /\ az_pc = "raised"
    /\ IsException(az_exc)
    /\ co_pc' = "fallback"
    /\ rb_calls' = rb_calls + 1
    /\ rb_text' = co_text
    /\ rb_i' = 1
    /\ rb_meds' = <<>>
    /\ rb_diagnoses' = <<>>
    /\ rb_symptoms' = <<>>
    /\ rb_labs' = <<>>
    /\ rb_result' = Null
    /\ rb_pc' = "meds"
    /\ UNCHANGED <<co_text, co_result, az_calls>>
    /\ UNCHANGED <<chunkVars, envVars, azVars>>

\* Line 404: the envelope of extract_rule_based is returned.
CoReturnRule ==
    /\ co_pc = "fallback"
    /\ rb_pc = "done"
    /\ co_result' = rb_result
    /\ co_pc' = "done"
    /\ UNCHANGED <<co_text, az_calls, rb_calls>>
    /\ UNCHANGED <<chunkVars, ruleVars, envVars, azVars>>

NextAzure ==
    \/ AzNotConfigured
    \/ AzChunk
    \/ AzBatchEmpty
    \/ AzCallFails
    \/ AzCall
    \/ AzDocError
    \/ AzDocMalformed
    \/ AzEntity
    \/ AzRelation
    \/ AzDocDone
    \/ AzBatchDone
    \/ AzReturn

Next == CoTry \/ NextAzure \/ CoReturnAzure \/ CoFallback \/ NextRule \/ CoReturnRule

(***************************************************************************)
(* The calls of extract_health_from_text that are explored                 *)
(***************************************************************************)

\* Bound: the entities and relations of a page that is explored in full are
\* at most MaxItems together.
MaxItems == 3

\* Bound: a text has chunks for at most MaxBatches batches.
MaxBatches == 2

\* The sequences over S of length at most n.
SeqsUpTo(S, n) == UNION {[1 .. k -> S] : k \in 0 .. n}

\* The client get_azure_client builds when endpoint and key are set.
Configured == <<"TextAnalyticsClient">>

\* A text of whitespace only.
BlankText == <<" ", NL>>

\* The service answers with pages and raises on call number fail_at (never
\* when fail_at is 0) an exception of class fail_kind.
Service(pages, fail_at, fail_kind) ==
    [pages |-> pages, fail_at |-> fail_at, fail_kind |-> fail_kind]

\* The ways a call can fail: with the HttpResponseError the adapter handles,
\* or with another error of the SDK (no connection).
FailKinds == {"HttpResponseError", "ServiceRequestError"}

\* One call of extract_health_from_text: the text, the client, the chunks of
\* the text and the answers of the service.
Call(txt, cl, chunk_flags, sv) ==
    [text |-> txt, client |-> cl, chunked |-> chunk_flags, service |-> sv]

\* No client is configured; the service is never asked.
UnconfiguredCalls ==
    {Call(t, Null, <<HasText(t)>>, Service(<<>>, 0, "HttpResponseError")) :
        t \in {<<>>, BlankText, ExampleText, LineLab, LineSymptom}}

\* The pages of at most MaxItems entities and relations from the pools.
FullPages ==
    UNION {{Page(es, rs) : rs \in SeqsUpTo(RelationPool, MaxItems - Len(es))} :
              es \in SeqsUpTo(EntityPool, MaxItems)}

\* A text of one chunk whose page is any page of at most MaxItems entities
\* and relations.
OnePageCalls ==
    {Call(ExampleText, Configured, <<TRUE>>, Service(<<p>>, 0, "HttpResponseError")) :
        p \in FullPages}

\* A text of one chunk whose page has MaxItems detections of two diagnoses,
\* one of them detected with and without its optional fields.
DiagnosisCalls ==
    {Call(ExampleText, Configured, <<TRUE>>,
          Service(<<Page(es, <<>>)>>, 0, "HttpResponseError")) :
        es \in [1 .. MaxItems -> {EntAsthma, EntAsthmaBare, EntEczema}]}

\* A text of one chunk whose page has MaxItems relations with several roles
\* of a medication, or one.
AnchorCalls ==
    {Call(ExampleText, Configured, <<TRUE>>,
          Service(<<Page(<<>>, rs)>>, 0, "HttpResponseError")) :
        rs \in [1 .. MaxItems -> {RelTwoMeds, RelForm, RelDose}]}

\* The numbers of chunks: one or two, or a number of full batches, with and
\* without one chunk more.
DocCounts ==
    {1, 2} \cup {b * BATCH + r : b \in 1 .. (MaxBatches - 1), r \in {0, 1}}

\* Which of n chunks have text: all, none, all but the first, or all but
\* those of the first batch.
ChunkFlags(n) ==
    {[d \in 1 .. n |-> TRUE], [d \in 1 .. n |-> FALSE],
     [d \in 1 .. n |-> d > 1], [d \in 1 .. n |-> d > BATCH]}

\* A page with records of three types and a relation.
ContentPage == Page(<<EntAsthma, EntAspirinBare, EntSodium>>, <<RelDose>>)

PagePool == {EmptyPage, ErrorPage, MalformedPage, ContentPage}

\* The answers for m documents: pages of the pool for the first and the last
\* document, empty pages between them.
PagesFor(m) ==
    {[k \in 1 .. m |-> IF k = 1 THEN first ELSE IF k = m THEN last ELSE EmptyPage] :
        first \in PagePool, last \in PagePool}

\* The number of chunks with text.
TextCount(flags) == Cardinality({d \in DOMAIN flags : flags[d]})

\* The text behind the chunks, without the padding that makes it long.
TextOf(flags) == IF TextCount(flags) = 0 THEN BlankText ELSE ExampleText

\* The calls for a text whose chunks are flags: any answers, and any call
\* failing or none.
CallsFor(flags) ==
    {Call(TextOf(flags), Configured, flags, Service(pages, fail_at, kind)) :
        pages \in PagesFor(TextCount(flags)),
        fail_at \in 0 .. MaxBatches,
        kind \in FailKinds}

\* Texts of several chunks and batches, with calls that fail.
BatchCalls == UNION {CallsFor(flags) : flags \in UNION {ChunkFlags(n) : n \in DocCounts}}

Calls ==
    UnconfiguredCalls \cup OnePageCalls \cup DiagnosisCalls \cup AnchorCalls \cup BatchCalls

\* extract_health_from_text is called.
Init ==
    /\ \E c \in Calls :
          /\ co_text = c.text
          /\ client = c.client
          /\ chunked = c.chunked
          /\ service = c.service
    /\ co_pc = "start"
    /\ co_result = Null
    /\ az_calls = 0
    /\ rb_calls = 0
    /\ AzIdle
    /\ RuleIdle
    /\ ChunkIdle

(***************************************************************************)
(* Specifications                                                          *)
(***************************************************************************)

SpecChunk == InitChunk /\ [][NextChunk]_vars

\* chunk_text runs on: a call that can take a step takes it.
SpecChunkLive == InitChunk /\ [][NextChunk]_vars /\ WF_vars(NextChunk)

SpecRule == InitRule /\ [][NextRule]_vars

Spec == Init /\ [][Next]_vars

(***************************************************************************)
(* Properties                                                              *)
(***************************************************************************)

\* C1: once chunk_text has returned, the concatenation of the chunks in
\* order is the text: nothing lost, duplicated or reordered.
ChunksReassemble == ck_pc = "done" => Flatten(chunks) = text

\* C1 witness: a returned split made at a newline, the newline opening the
\* next chunk.
ChunksReassembleWitness ==
    /\ ck_pc = "done"
    /\ Len(chunks) >= 2
    /\ Len(chunks[1]) < max_chars
    /\ chunks[2] # <<>>
    /\ chunks[2][1] = NL

\* C2: every chunk, finished or collected so far, is at most max_chars long.
ChunksWithinBound == \A k \in 1 .. Len(chunks) : Len(chunks[k]) <= max_chars

\* C2 witness: a returned list with a chunk cut at a newline (shorter than
\* the bound) and a chunk cut at the bound itself.
ChunksWithinBoundWitness ==
    /\ ck_pc = "done"
    /\ Len(chunks) >= 3
    /\ \E k \in 1 .. Len(chunks) : Len(chunks[k]) = max_chars
    /\ \E k \in 1 .. (Len(chunks) - 1) :
          /\ Len(chunks[k]) < max_chars
          /\ chunks[k + 1][1] = NL

\* The matches the loop of lines 334-340 has consumed so far whose stripped
\* name is name.
SeenMatches(name) ==
    {j \in 1 .. (rb_i - 1) : Strip(MedMatches(rb_text)[j].name) = name}

\* The value of group g in the first of the matches js that has it, or Null.
FirstValue(js, g) ==
    LET has == {j \in js : MedMatches(rb_text)[j][g] # Null}
    IN  IF has = {} THEN Null
        ELSE MedMatches(rb_text)[CHOOSE j \in has : \A i \in has : j <= i][g]

\* C9: in the rule-based extractor each of dosage, frequency and route of a
\* medication is the value of the first match for that name that has the
\* field, whatever later matches for the name carry (nothing, or another
\* value), and stays unset only while no match for the name has had it.
RuleMedFirstValueWins ==
    \A k \in DOMAIN rb_meds :
        LET js == SeenMatches(rb_meds[k].k)
        IN  /\ js # {}
            /\ rb_meds[k].v.dosage = FirstValue(js, "dose")
            /\ rb_meds[k].v.frequency = FirstValue(js, "freq")
            /\ rb_meds[k].v.route = FirstValue(js, "route")

\* C9 witness: a name matched twice, the later match carrying another dose
\* than the recorded one and the route the first match lacked.
RuleMedFirstValueWinsWitness ==
    \E k \in DOMAIN rb_meds :
        \E i, j \in SeenMatches(rb_meds[k].k) :
            LET mi == MedMatches(rb_text)[i]
                mj == MedMatches(rb_text)[j]
            IN  /\ i < j
                /\ mi.dose # Null /\ mj.dose # Null /\ mi.dose # mj.dose
                /\ rb_meds[k].v.dosage = mi.dose
                /\ mi.route = Null /\ mj.route # Null
                /\ rb_meds[k].v.route = mj.route

Lisinopril == <<"L", "i", "s", "i", "n", "o", "p", "r", "i", "l">>

\* C10: for the example text the returned envelope holds the medication
\* record name "Lisinopril", dosage "10mg", route "PO", frequency "daily".
RuleExampleMedication ==
    (rb_pc = "done" /\ rb_text = ExampleText) =>
        \E k \in DOMAIN rb_result.medications :
            LET m == rb_result.medications[k]
            IN  /\ m.name = Lisinopril
                /\ m.dosage = <<"1", "0", "m", "g">>
                /\ m.route = <<"P", "O">>
                /\ m.frequency = <<"d", "a", "i", "l", "y">>

(***************************************************************************)
(* Properties of extract_health_from_text and analyze_with_azure           *)
(***************************************************************************)

\* The four collections of an envelope.
Collections == {"diagnoses", "medications", "symptoms", "labs"}

\* C3: extract_health_from_text never raises (whatever the adapter raises is
\* caught: the handler of the coordinator is enabled then); the adapter is
\* called once and never again; the rule-based extractor runs once if the
\* adapter raised and not at all otherwise, and its envelope, of source
\* "rule_based", is what is returned then.
CoordinatorNeverRaises ==
    /\ az_calls <= 1
    /\ rb_calls <= 1
    /\ (co_pc = "try" /\ az_pc = "raised") => ENABLED CoFallback
    /\ co_pc # "start" => az_calls = 1
    /\ rb_calls = 1 <=> (az_pc = "raised" /\ co_pc \in {"fallback", "done"})
    /\ (co_pc = "done" /\ az_pc = "raised") =>
          /\ rb_pc = "done"
          /\ co_result = rb_result
          /\ co_result.source = "rule_based"

\* C3 witness: the remote call of a later batch fails with an error the
\* adapter does not handle itself, and the rule-based envelope is returned.
CoordinatorNeverRaisesWitness ==
    /\ co_pc = "done"
    /\ az_exc = Raised("ServiceRequestError", "")
    /\ az_i > 0
    /\ rb_calls = 1
    /\ co_result.source = "rule_based"
    /\ co_result.medications # <<>>

\* C4: every record of the four collections of the returned envelope has the
\* source of the envelope.
EnvelopeOneSource ==
    co_pc = "done" =>
        \A c \in Collections :
            \A i \in DOMAIN co_result[c] : co_result[c][i].source = co_result.source

\* C4 witness: the adapter fails after it has collected azure records, and
\* the returned envelope has records.
EnvelopeOneSourceWitness ==
    /\ co_pc = "done"
    /\ az_pc = "raised"
    /\ az_diagnoses # <<>>
    /\ az_meds # <<>>
    /\ co_result.diagnoses # <<>>
    /\ co_result.medications # <<>>

\* The call the service fails has been made.
FailedCall == service.fail_at > 0 /\ remote_calls >= service.fail_at

\* C5: once a call of the service has failed, the adapter has raised: it
\* makes no further call, returns no envelope, and the envelope the caller
\* gets is the rule-based one, with none of the records the adapter had
\* collected.
HardFailureAborts ==
    FailedCall =>
        /\ az_pc = "raised"
        /\ remote_calls = service.fail_at
        /\ co_pc = "done" =>
              /\ co_result.source = "rule_based"
              /\ \A c \in Collections :
                    \A i \in DOMAIN co_result[c] : co_result[c][i].source # "azure"
              /\ Range(co_result.diagnoses) \cap Range(DictValues(az_diagnoses)) = {}
              /\ Range(co_result.symptoms) \cap Range(DictValues(az_symptoms)) = {}
              /\ Range(co_result.medications) \cap Range(DictValues(az_meds)) = {}
              /\ Range(co_result.labs) \cap Range(DictValues(az_labs)) = {}

\* C5 witness: the call of the second batch fails after the first batch has
\* produced records, and the coordinator has returned.
HardFailureAbortsWitness ==
    /\ FailedCall
    /\ service.fail_at = 2
    /\ az_i = BATCH
    /\ az_diagnoses # <<>>
    /\ az_meds # <<>>
    /\ az_labs # <<>>
    /\ co_pc = "done"

\* The number of pages the two passes are through with.
PagesDone == served - Len(result_pages) + (az_j - 1)

\* How many entities of page number p the first pass has taken.
EntitiesTaken(p) ==
    IF service.pages[p].kind # "ok" THEN 0
    ELSE IF p <= PagesDone THEN Len(service.pages[p].entities)
    ELSE IF p = PagesDone + 1 /\ InDoc THEN az_e - 1
    ELSE 0

\* How many relations of page number p the second pass has taken.
RelationsTaken(p) ==
    IF service.pages[p].kind # "ok" THEN 0
    ELSE IF p <= PagesDone THEN Len(service.pages[p].relations)
    ELSE IF p = PagesDone + 1 /\ InDoc THEN az_r - 1
    ELSE 0

\* The pages the passes have come to.
PagesReached == 1 .. Min(Len(service.pages), PagesDone + 1)

\* The entities taken so far.
SeenEntities ==
    UNION {{service.pages[p].entities[k] : k \in 1 .. EntitiesTaken(p)} :
              p \in PagesReached}

\* The key of a detection: its text, category and offset.
KeyOf(e) == <<e.text, e.category, e.offset>>

\* The key of the anchor of rel, found by word; <<>> if rel has none.
AnchorKey(rel, word) ==
    Let(Roles(rel),
        LAMBDA roles : Let(Anchor(roles, word),
                           LAMBDA a : IF a = 0 THEN <<>> ELSE KeyOf(roles[a].v)))

\* A relation taken by the second pass: its place <<page, number>>, and the
\* keys of its anchors.
Taken(p, k) ==
    [page |-> p, number |-> k, rel |-> service.pages[p].relations[k],
     med |-> AnchorKey(service.pages[p].relations[k], <<"M", "E", "D", "I", "C", "A", "T", "I", "O", "N">>),
     exam |-> AnchorKey(service.pages[p].relations[k], <<"E", "X", "A", "M", "I", "N", "A", "T", "I", "O", "N">>)]

\* The relations taken so far.
SeenRelations ==
    UNION {{Taken(p, k) : k \in 1 .. RelationsTaken(p)} : p \in PagesReached}

\* The keys among ents of the category cat.
DetectedKeys(ents, cat) ==
    {KeyOf(e) : e \in {x \in ents : Upper(x.category) = cat}}

\* d holds exactly one record for each key of keys.
OneRecordPerKey(d, keys) ==
    /\ DictKeys(d) = keys
    /\ Len(d) = Cardinality(keys)

\* Each collection holds one record per key of its type among the entities
\* ents and the anchors of the relations rels.
OneRecordPerDetectedKey(ents, rels) ==
    /\ OneRecordPerKey(az_diagnoses, DetectedKeys(ents, <<"D", "I", "A", "G", "N", "O", "S", "I", "S">>))
    /\ OneRecordPerKey(az_symptoms, DetectedKeys(ents, <<"S", "Y", "M", "P", "T", "O", "M", "_", "O", "R", "_", "S", "I", "G", "N">>))
    /\ OneRecordPerKey(az_meds, DetectedKeys(ents, <<"M", "E", "D", "I", "C", "A", "T", "I", "O", "N", "_", "N", "A", "M", "E">>)
                                    \cup ({r.med : r \in rels} \ {<<>>}))
    /\ OneRecordPerKey(az_labs, DetectedKeys(ents, <<"E", "X", "A", "M", "I", "N", "A", "T", "I", "O", "N", "_", "N", "A", "M", "E">>)
                                    \cup ({r.exam : r \in rels} \ {<<>>}))

\* C6: at any point of the adapter each collection holds exactly one record
\* for each distinct key (text, category, offset) detected so far for its
\* type, however often and wherever the key was detected.
DedupOneRecordPerKey ==
    az_pc \in {"batch", "doc", "raised", "returned"} =>
        Let(SeenEntities,
            LAMBDA ents : Let(SeenRelations,
                              LAMBDA rels : OneRecordPerDetectedKey(ents, rels)))

\* C6 witness: the current page has a key detected twice, with another
\* detection between the two, and one record for it.
DedupOneRecordPerKeyWitness ==
    /\ InDoc
    /\ az_e = 4
    /\ KeyOf(DocResult.entities[1]) = KeyOf(DocResult.entities[3])
    /\ KeyOf(DocResult.entities[2]) # KeyOf(DocResult.entities[1])
    /\ DocResult.entities[1] # DocResult.entities[3]
    /\ Cardinality({i \in DOMAIN az_diagnoses :
                        az_diagnoses[i].k = KeyOf(DocResult.entities[1])}) = 1

\* The optional fields of the records of a collection.
OptionalFields(c) ==
    CASE c = "diagnoses" -> {"normalized", "confidence", "assertion"}
      [] c = "symptoms" -> {"normalized", "confidence", "assertion"}
      [] c = "medications" ->
            {"normalized", "dosage", "frequency", "route", "form", "confidence",
             "assertion"}
      [] c = "labs" -> {"value", "unit", "operator", "confidence"}

\* From d to e every record stays and keeps each optional field of c that
\* it has.
KeepsPopulated(c, d, e) ==
    \A i \in DOMAIN d :
        /\ i \in DOMAIN e
        /\ e[i].k = d[i].k
        /\ \A f \in OptionalFields(c) : d[i].v[f] # Null => e[i].v[f] # Null

\* C7: no step of the adapter replaces a populated optional field of an
\* existing record by null, for any of the four entity types.
PopulatedFieldsKept ==
    [][/\ KeepsPopulated("diagnoses", az_diagnoses, az_diagnoses')
       /\ KeepsPopulated("symptoms", az_symptoms, az_symptoms')
       /\ KeepsPopulated("medications", az_meds, az_meds')
       /\ KeepsPopulated("labs", az_labs, az_labs')]_vars

\* The upper-cased role names that feed a field.
RoleNames(f) ==
    CASE f = "dosage" -> {<<"D", "O", "S", "A", "G", "E">>}
      [] f = "frequency" -> {<<"F", "R", "E", "Q", "U", "E", "N", "C", "Y">>}
      [] f = "route" ->
            {<<"R", "O", "U", "T", "E">>, <<"R", "O", "U", "T", "E", "O", "F", "A", "D", "M", "I", "N", "I", "S", "T", "R", "A", "T", "I", "O", "N">>, <<"R", "O", "U", "T", "E", "_", "O", "F", "_", "A", "D", "M", "I", "N", "I", "S", "T", "R", "A", "T", "I", "O", "N">>}
      [] f = "form" -> {<<"F", "O", "R", "M">>, <<"M", "E", "D", "I", "C", "A", "T", "I", "O", "N", "_", "F", "O", "R", "M">>}
      [] f = "value" -> {<<"M", "E", "A", "S", "U", "R", "E", "M", "E", "N", "T", "_", "V", "A", "L", "U", "E">>}
      [] f = "unit" -> {<<"M", "E", "A", "S", "U", "R", "E", "M", "E", "N", "T", "_", "U", "N", "I", "T">>}
      [] f = "operator" -> {<<"R", "E", "L", "A", "T", "I", "O", "N", "A", "L", "_", "O", "P", "E", "R", "A", "T", "O", "R">>}

\* The span texts of the roles of rel that feed field f.
SpanTexts(rel, f) ==
    {rel.roles[i].entity.text :
        i \in {j \in DOMAIN rel.roles : Upper(rel.roles[j].name) \in RoleNames(f)}}

\* Field f of rec is the span text of a role for f in the last of the
\* relations rels that carries one, and unset if none does.
LastCarrierWins(rels, rec, f) ==
    Let({r \in rels : SpanTexts(r.rel, f) # {}},
        LAMBDA carriers :
            IF carriers = {} THEN rec[f] = Null
            ELSE \E r \in carriers :
                    /\ \A q \in carriers :
                          \/ q.page < r.page
                          \/ (q.page = r.page /\ q.number <= r.number)
                    /\ rec[f] \in SpanTexts(r.rel, f))

\* The attribute fields of the records d are those of the last relations of
\* rels for their anchors.
LastRelationsWin(rels) ==
    /\ \A i \in DOMAIN az_meds :
          Let({r \in rels : r.med = az_meds[i].k},
              LAMBDA mine :
                  \A f \in {"dosage", "frequency", "route", "form"} :
                      LastCarrierWins(mine, az_meds[i].v, f))
    /\ \A i \in DOMAIN az_labs :
          Let({r \in rels : r.exam = az_labs[i].k},
              LAMBDA mine :
                  \A f \in {"value", "unit", "operator"} :
                      LastCarrierWins(mine, az_labs[i].v, f))

\* C8: at any point of the adapter each attribute field of a medication
\* (dosage, frequency, route, form) and of a lab (value, unit, operator) is
\* the span text of the corresponding role in the last relation taken for
\* that anchor that carried the role, each field on its own, and unset if no
\* relation for the anchor carried it.
LastRelationWins ==
    az_pc \in {"batch", "doc", "raised", "returned"} =>
        Let(SeenRelations, LAMBDA rels : LastRelationsWin(rels))

\* C8 witness: a medication with dosage "500mg" and route "PO" from one
\* relation, whose dosage a later relation without a route has replaced.
LastRelationWinsWitness ==
    /\ InDoc
    /\ az_r = 3
    /\ DocResult.relations[1] = RelDose
    /\ DocResult.relations[2] = RelDoseLater
    /\ \E i \in DOMAIN az_meds :
          /\ az_meds[i].v.dosage = <<"2", "5", "0", "m", "g">>
          /\ az_meds[i].v.route = <<"P", "O">>

\* The numbers (from 1) of the chunks of the batch at az_i that have text.
BatchKept ==
    {d \in (az_i + 1) .. Min(az_i + BATCH, Len(documents)) : documents[d]}

\* A chunk after the batch at az_i has text: the call for the batch at az_i
\* is not the last call.
LaterCall == \E d \in (az_i + BATCH + 1) .. Len(documents) : documents[d]

\* The batches before the batch at az_i that have a chunk with text.
EarlierCalls ==
    {b \in 0 .. ((az_i \div BATCH) - 1) :
        \E d \in (b * BATCH + 1) .. ((b + 1) * BATCH) : documents[d]}

\* C11 as stated: a remote call carries at most 25 documents, a call that is
\* not the last carries exactly 25 when more than 25 chunks exist, and the
\* 26th chunk (id "25") is the first document of the second call.
BatchesOfExactly25 ==
    az_pc = "doc" =>
        /\ Len(payload) <= BATCH
        /\ (Len(documents) > BATCH /\ LaterCall) => Len(payload) = BATCH
        /\ (Len(documents) > BATCH /\ remote_calls = 2) => payload[1].id = Str(BATCH)

\* C11, amended: the call for the batch of chunks az_i + 1 .. az_i + 25
\* carries exactly the chunks among them that have text, in order and under
\* their 0-based index as id, at least one and at most 25; a batch without
\* such a chunk makes no call; and when more than 25 chunks exist and all
\* have text, a call that is not the last carries exactly 25 documents and
\* the 26th chunk is the first document of the second call.
BatchesInOrder ==
    az_pc = "doc" =>
        /\ az_i % BATCH = 0
        /\ Len(payload) = Cardinality(BatchKept)
        /\ Len(payload) \in 1 .. BATCH
        /\ \A d \in BatchKept :
              payload[Cardinality({e \in BatchKept : e <= d})].id = Str(d - 1)
        /\ remote_calls = 1 + Cardinality(EarlierCalls)
        /\ (Len(documents) > BATCH /\ \A d \in DOMAIN documents : documents[d]) =>
              /\ LaterCall => Len(payload) = BATCH
              /\ remote_calls = 2 => payload[1].id = Str(BATCH)

\* The second call of a text of 26 chunks with text carries the 26th chunk.
BatchesInOrderWitness ==
    /\ az_pc = "doc"
    /\ remote_calls = 2
    /\ Len(documents) = BATCH + 1
    /\ \A d \in DOMAIN documents : documents[d]
    /\ Len(payload) = 1
    /\ payload[1].id = <<"2", "5">>

\* The four dictionaries as one value.
Dicts(d, s, m, l) == [diagnoses |-> d, symptoms |-> s, medications |-> m, labs |-> l]

\* acc after the entity pass over ents from number k on.
RECURSIVE AfterEntities(_, _, _)
AfterEntities(acc, ents, k) ==
    IF k > Len(ents) THEN acc
    ELSE Let(Dicts(EntityDiagnoses(acc.diagnoses, ents[k]),
                   EntitySymptoms(acc.symptoms, ents[k]),
                   EntityMeds(acc.medications, ents[k]),
                   EntityLabs(acc.labs, ents[k])),
             LAMBDA next : AfterEntities(next, ents, k + 1))

\* acc after the relation pass over rels from number k on.
RECURSIVE AfterRelations(_, _, _)
AfterRelations(acc, rels, k) ==
    IF k > Len(rels) THEN acc
    ELSE Let(Dicts(acc.diagnoses, acc.symptoms,
                   RelationMeds(acc.medications, rels[k]),
                   RelationLabs(acc.labs, rels[k])),
             LAMBDA next : AfterRelations(next, rels, k + 1))

\* acc after both passes over each of pages from number p on.
RECURSIVE AfterPages(_, _, _)
AfterPages(acc, pages, p) ==
    IF p > Len(pages) THEN acc
    ELSE Let(AfterRelations(AfterEntities(acc, pages[p].entities, 1),
                            pages[p].relations, 1),
             LAMBDA next : AfterPages(next, pages, p + 1))

\* The pages of the service that are not flagged as errored.
SoundPages == SelectSeq(service.pages, LAMBDA pg : pg.kind # "error")

\* C12: a document flagged as errored never makes the adapter raise, and
\* the envelope the adapter returns has source "azure" and holds exactly
\* what the two passes make of the documents that are not errored, of every
\* batch, in their order: nothing of an errored document, and nothing at all
\* when every document is errored.
ErroredDocsSkipped ==
    /\ az_pc = "raised" =>
          \/ client = Null
          \/ FailedCall
          \/ (az_j <= Len(result_pages) /\ result_pages[az_j].kind = "malformed")
    /\ az_pc = "returned" =>
          /\ served = Len(service.pages)
          /\ az_result.source = "azure"
          /\ Let(AfterPages(Dicts(<<>>, <<>>, <<>>, <<>>), SoundPages, 1),
                 LAMBDA acc :
                     az_result = AzureEnvelope(acc.diagnoses, acc.medications,
                                               acc.symptoms, acc.labs))
          /\ SoundPages = <<>> =>
                \A c \in Collections : az_result[c] = <<>>

\* C12 witness: the first document of the first batch is errored, a document
\* of the second batch is not, and the returned envelope has the records of
\* the second and none of the first.
ErroredDocsSkippedWitness ==
    /\ az_pc = "returned"
    /\ Len(documents) > BATCH
    /\ \A d \in DOMAIN documents : documents[d]
    /\ service.pages[1] = ErrorPage
    /\ service.pages[Len(service.pages)] = ContentPage
    /\ az_result.diagnoses # <<>>
    /\ az_result.medications # <<>>
    /\ az_result.symptoms = <<>>
    /\ \A i \in DOMAIN az_result.labs : az_result.labs[i].operator = Null

\* The moment of a detection: page p, pass (0 the entity pass, 1 the relation
\* pass) and number k in the pass, as one number that grows with time.
Stamp(p, pass, k) == ((p * 2) + pass) * (MaxItems + 2) + k

\* The entities taken so far, each with its key and the moment it was taken.
StampedEntities ==
    UNION {{[key |-> KeyOf(service.pages[p].entities[k]),
             category |-> Upper(service.pages[p].entities[k].category),
             page |-> p,
             at |-> Stamp(p, 0, k)] : k \in 1 .. EntitiesTaken(p)} :
              p \in PagesReached}

\* The moments at which key was detected for a collection: as an entity of
\* category cat, or as the anchor (field anchor of a taken relation) of one
\* of rels.
DetectedAt(key, ents, cat, rels, anchor) ==
    {e.at : e \in {x \in ents : x.key = key /\ x.category = cat}}
        \cup {Stamp(r.page, 1, r.number) : r \in {q \in rels : q[anchor] = key}}

\* The entries of d are in the order of the first detections of their keys.
InFirstSeenOrder(d, ents, cat, rels, anchor) ==
    /\ \A i \in DOMAIN d : DetectedAt(d[i].k, ents, cat, rels, anchor) # {}
    /\ \A i \in DOMAIN d : \A j \in DOMAIN d :
          i < j => SetMin(DetectedAt(d[i].k, ents, cat, rels, anchor))
                      < SetMin(DetectedAt(d[j].k, ents, cat, rels, anchor))

\* No relation: the diagnoses and symptoms have no anchors.
NoRelations == {}

\* C13: at any point of the adapter the records of each collection are in
\* the order of the first detections of their keys (as an entity or as the
\* anchor of a relation), whatever was detected again, replaced or enriched
\* since, and the returned envelope lists them in that order.
FirstSeenOrder ==
    /\ az_pc \in {"batch", "doc", "raised", "returned"} =>
          Let(StampedEntities,
              LAMBDA ents :
                  Let(SeenRelations,
                      LAMBDA rels :
                          /\ InFirstSeenOrder(az_diagnoses, ents, <<"D", "I", "A", "G", "N", "O", "S", "I", "S">>, NoRelations, "med")
                          /\ InFirstSeenOrder(az_symptoms, ents, <<"S", "Y", "M", "P", "T", "O", "M", "_", "O", "R", "_", "S", "I", "G", "N">>, NoRelations, "med")
                          /\ InFirstSeenOrder(az_meds, ents, <<"M", "E", "D", "I", "C", "A", "T", "I", "O", "N", "_", "N", "A", "M", "E">>, rels, "med")
                          /\ InFirstSeenOrder(az_labs, ents, <<"E", "X", "A", "M", "I", "N", "A", "T", "I", "O", "N", "_", "N", "A", "M", "E">>, rels, "exam")))
    /\ az_pc = "returned" =>
          /\ \A i \in DOMAIN az_diagnoses : az_result.diagnoses[i] = az_diagnoses[i].v
          /\ \A i \in DOMAIN az_symptoms : az_result.symptoms[i] = az_symptoms[i].v
          /\ \A i \in DOMAIN az_meds : az_result.medications[i] = az_meds[i].v
          /\ \A i \in DOMAIN az_labs : az_result.labs[i] = az_labs[i].v

\* C13 witness: a diagnosis detected first, then another, then the first
\* again without its optional fields: replaced, and still first.
FirstSeenOrderWitness ==
    /\ az_pc = "returned"
    /\ Len(service.pages) = 1
    /\ service.pages[1].entities = <<EntAsthma, EntEczema, EntAsthmaBare>>
    /\ Len(az_result.diagnoses) = 2
    /\ az_result.diagnoses[1].text = EntAsthma.text
    /\ az_result.diagnoses[1].normalized = Null
    /\ az_result.diagnoses[2].text = EntEczema.text

\* From d to e every record stays, with its key and with every field it has
\* populated.
KeepsValues(c, d, e) ==
    \A i \in DOMAIN d :
        /\ i \in DOMAIN e
        /\ e[i].k = d[i].k
        /\ \A f \in OptionalFields(c) : d[i].v[f] # Null => e[i].v[f] = d[i].v[f]

\* C14 as stated: no step of the adapter changes a populated field of an
\* existing medication or lab.
PopulatedAnchorFieldsKept ==
    [][/\ KeepsValues("medications", az_meds, az_meds')
       /\ KeepsValues("labs", az_labs, az_labs')]_vars

\* The relation the next step of the relation pass takes, as a sequence of
\* one relation; empty when the next step takes none.
RelationAtHand ==
    IF /\ InDoc
       /\ DocResult.kind = "ok"
       /\ az_e > Len(DocResult.entities)
       /\ az_r <= Len(DocResult.relations)
    THEN <<DocResult.relations[az_r]>>
    ELSE <<>>

\* From d to e every record stays in its place with its key and with the
\* fields that are not attributes; an attribute for which the relation at
\* hand, anchored (by word) at the record, carries a role is a span text of
\* such a role, and every other attribute is unchanged.
AnchorsKept(d, e, attrs, word) ==
    \A i \in DOMAIN d :
        /\ i \in DOMAIN e
        /\ e[i].k = d[i].k
        /\ \A f \in (DOMAIN d[i].v) \ attrs : e[i].v[f] = d[i].v[f]
        /\ \A f \in attrs :
              IF /\ RelationAtHand # <<>>
                 /\ AnchorKey(RelationAtHand[1], word) = d[i].k
                 /\ SpanTexts(RelationAtHand[1], f) # {}
              THEN e[i].v[f] \in SpanTexts(RelationAtHand[1], f)
              ELSE e[i].v[f] = d[i].v[f]

\* C14, amended: the first record created for a key of a medication or a lab
\* stays in its place as the anchor; no later step changes its name,
\* normalized text, confidence, assertion or source, a later entity
\* detection changes nothing of it, and a relation pass for it sets exactly
\* the attributes whose roles the relation carries, to the span text of the
\* role, populated or not, and leaves every other attribute as it is.
AnchorFieldsKept ==
    [][/\ AnchorsKept(az_meds, az_meds', {"dosage", "frequency", "route", "form"},
                      <<"M", "E", "D", "I", "C", "A", "T", "I", "O", "N">>)
       /\ AnchorsKept(az_labs, az_labs', {"value", "unit", "operator"},
                      <<"E", "X", "A", "M", "I", "N", "A", "T", "I", "O", "N">>)]_vars

\* C14 witness: a medication detected with its optional fields and detected
\* again without them has kept them, and a relation has given it a dosage.
AnchorFieldsKeptWitness ==
    /\ InDoc
    /\ DocResult.entities = <<EntAspirin, EntAspirinBare>>
    /\ DocResult.relations = <<RelDose>>
    /\ az_r = 2
    /\ Len(az_meds) = 1
    /\ az_meds[1].v.normalized = EntAspirin.normalized_text
    /\ az_meds[1].v.confidence = EntAspirin.confidence_score
    /\ az_meds[1].v.dosage = EntDose.text

\* The numbers of the roles of rel whose upper-cased name contains word.
MatchingRoles(rel, word) ==
    {i \in DOMAIN rel.roles : Contains(Upper(rel.roles[i].name), word)}

\* The key of the entity of the first role of rel, in the order of its
\* roles, whose upper-cased name contains word; <<>> if there is none.
FirstRoleKey(rel, word) ==
    Let(MatchingRoles(rel, word),
        LAMBDA hits : IF hits = {} THEN <<>>
                      ELSE KeyOf(rel.roles[SetMin(hits)].entity))

\* The key of the entity of the last role that has the same upper-cased name
\* as the first role of rel whose upper-cased name contains word; <<>> if
\* there is none.
FirstLabelKey(rel, word) ==
    Let(MatchingRoles(rel, word),
        LAMBDA hits :
            IF hits = {} THEN <<>>
            ELSE Let({i \in DOMAIN rel.roles :
                         Upper(rel.roles[i].name) = Upper(rel.roles[SetMin(hits)].name)},
                     LAMBDA same : KeyOf(rel.roles[Max(same)].entity)))

\* The medications and labs are those detected as entities and those that
\* are the anchors, as med and exam tell them, of the relations taken.
AnchorsAre(med(_), exam(_)) ==
    Let(SeenEntities,
        LAMBDA ents :
            Let({r.rel : r \in SeenRelations},
                LAMBDA rels :
                    /\ DictKeys(az_meds) =
                          DetectedKeys(ents, <<"M", "E", "D", "I", "C", "A", "T", "I", "O", "N", "_", "N", "A", "M", "E">>)
                              \cup ({med(r) : r \in rels} \ {<<>>})
                    /\ DictKeys(az_labs) =
                          DetectedKeys(ents, <<"E", "X", "A", "M", "I", "N", "A", "T", "I", "O", "N", "_", "N", "A", "M", "E">>)
                              \cup ({exam(r) : r \in rels} \ {<<>>})))

\* C15 as stated: the anchor of a relation is the entity of the first role,
\* in the order of the roles, whose upper-cased name contains "MEDICATION"
\* (for the medications) or "EXAMINATION" (for the labs).
AnchorIsFirstRole ==
    az_pc \in {"batch", "doc", "raised", "returned"} =>
        AnchorsAre(LAMBDA r : FirstRoleKey(r, <<"M", "E", "D", "I", "C", "A", "T", "I", "O", "N">>),
                   LAMBDA r : FirstRoleKey(r, <<"E", "X", "A", "M", "I", "N", "A", "T", "I", "O", "N">>))

\* C15, amended: the anchor of a relation is found under the first
\* upper-cased role name, in the order of the roles, that contains
\* "MEDICATION" or "EXAMINATION", also when several names match
\* (MEDICATION_FORM before a medication role); when several roles have that
\* same upper-cased name, the anchor is the entity of the last of them.
AnchorIsFirstLabel ==
    az_pc \in {"batch", "doc", "raised", "returned"} =>
        AnchorsAre(LAMBDA r : FirstLabelKey(r, <<"M", "E", "D", "I", "C", "A", "T", "I", "O", "N">>),
                   LAMBDA r : FirstLabelKey(r, <<"E", "X", "A", "M", "I", "N", "A", "T", "I", "O", "N">>))

\* C15 witness: a relation with the form before the medication and a
\* relation with two roles of one name have been taken; the form and the
\* entity of the second of the two roles are medications.
AnchorIsFirstLabelWitness ==
    /\ InDoc
    /\ DocResult.entities = <<>>
    /\ DocResult.relations = <<RelForm, RelTwoMeds, RelForm>>
    /\ az_r = 3
    /\ Len(az_meds) = 2
    /\ az_meds[1].k = <<<<"t", "a", "b", "l", "e", "t">>, <<"F", "o", "r", "m">>, 50>>
    /\ az_meds[2].k = KeyOf(EntIbuprofen)
    /\ az_meds[2].v.dosage = EntDose.text

\* C16: chunk_text returns; each iteration of its loop moves start forward
\* by at least one character and never beyond the end of the text; and for a
\* text longer than the bound every chunk is non-empty and there are at most
\* len(text) chunks.
ChunkTextTerminates ==
    /\ <>(ck_pc = "done")
    /\ [][ChunkIter => (start' >= start + 1 /\ start' <= Len(text))]_vars
    /\ [](Len(text) > max_chars =>
            /\ \A k \in 1 .. Len(chunks) : chunks[k] # <<>>
            /\ Len(chunks) <= Len(text))

\* C16 witness: with the bound 1, a text of a newline and two characters has
\* been cut into three chunks of one character, the newline one of them.
ChunkTextTerminatesWitness ==
    /\ ck_pc = "done"
    /\ max_chars = 1
    /\ Len(text) = 3
    /\ text[1] = NL
    /\ Len(chunks) = 3
    /\ chunks[1] = <<NL>>

\* The detections for a collection, each as <<page, key>>: the entities of
\* category cat among ents and the anchors (field anchor) of rels.
PageKeys(ents, cat, rels, anchor) ==
    {<<e.page, e.key>> : e \in {x \in ents : x.category = cat}}
        \cup {<<r.page, r[anchor]>> : r \in {q \in rels : q[anchor] # <<>>}}

\* d holds one record for each element of detections.
OneRecordEach(d, detections) == Len(d) = Cardinality(detections)

\* Each collection holds one record per detection when the detections are
\* told apart by what tell(_) keeps of <<page, key>>.
RecordsPer(tell(_)) ==
    Let(StampedEntities,
        LAMBDA ents :
            Let(SeenRelations,
                LAMBDA rels :
                    /\ OneRecordEach(az_diagnoses,
                            {tell(pk) : pk \in PageKeys(ents, <<"D", "I", "A", "G", "N", "O", "S", "I", "S">>, NoRelations, "med")})
                    /\ OneRecordEach(az_symptoms,
                            {tell(pk) : pk \in PageKeys(ents, <<"S", "Y", "M", "P", "T", "O", "M", "_", "O", "R", "_", "S", "I", "G", "N">>, NoRelations, "med")})
                    /\ OneRecordEach(az_meds,
                            {tell(pk) : pk \in PageKeys(ents, <<"M", "E", "D", "I", "C", "A", "T", "I", "O", "N", "_", "N", "A", "M", "E">>, rels, "med")})
                    /\ OneRecordEach(az_labs,
                            {tell(pk) : pk \in PageKeys(ents, <<"E", "X", "A", "M", "I", "N", "A", "T", "I", "O", "N", "_", "N", "A", "M", "E">>, rels, "exam")})))

\* C17 as stated: detections of different chunks are never one record; each
\* collection holds one record per chunk and key.
ChunksKeptApart ==
    az_pc \in {"batch", "doc", "raised", "returned"} => RecordsPer(LAMBDA pk : pk)

\* C17, amended: the key of a detection does not tell its chunk; detections
\* with the same text, category and offset within their chunks are one
\* record, whichever chunks they come from, and each collection holds one
\* record per key.
ChunksShareKeys ==
    az_pc \in {"batch", "doc", "raised", "returned"} => RecordsPer(LAMBDA pk : pk[2])

\* C17 witness: two chunks with the same detections at the same offsets, and
\* an envelope with one record of each.
ChunksShareKeysWitness ==
    /\ az_pc = "returned"
    /\ Len(service.pages) = 2
    /\ service.pages[1] = ContentPage
    /\ service.pages[2] = ContentPage
    /\ Len(az_result.diagnoses) = 1
    /\ Len(az_result.medications) = 1
    /\ Len(az_result.labs) = 1

=============================================================================
